---- MODULE Spec2Model ----
(***************************************************************************)
(* The evaluation task scheduler of the job-evaluator service worker       *)
(* (single in-flight slot, round-robin provider rotation, rate-limit       *)
(* retry in place, 2-minute timer race), as a state machine.               *)
(*                                                                         *)
(* Every await of the source is a suspension point: the continuation after *)
(* it is one action.  Time is a set of per-attempt clocks in milliseconds  *)
(* advanced by Tick in steps of RATE_LIMIT_RETRY_MS, the smallest timer of *)
(* the scheduler; every other timer is a multiple of it.                   *)
(***************************************************************************)
EXTENDS Integers, Sequences, FiniteSets, TLC

(* ---------- bounds of the model ---------- *)
MaxTasks == 3
MaxReadTicks == 1
MaxRetryTasks == 2
MaxRotationTasks == 4
MaxFairTasks == 1
MaxRetry == 2
MaxPairTasks == 2
MaxMultiTasks == 2
MaxRequeue == 1
MaxAdds == 6
MaxOverlap == 2
MaxStored == 3
MaxSaves == 2
MaxRuns == 2
MaxActive == 2

\* tasks submitted while the surfaces open and close
MaxDeliveryTasks == 2

\* tasks submitted at once to one provider: one more than its slots
MaxCapTasks == 5

\* EVALUATION_COMPLETE messages the side panel receives
MaxMessages == 2

(* ---------- program constants ---------- *)
RATE_LIMIT_RETRY_MS == 10000
TASK_FAIL_TIMEOUT_MS == 2 * 60 * 1000
REQUEST_TIMEOUT_MS == 60000
OLLAMA_TIMEOUT_MS == 180000
MAX_PER_PROVIDER == 4
MAX_RESUMES == 5
MAX_JOB_EVALS == 1000
HIGH_SCORE_KEEP == 75

Min(a, b) == IF a < b THEN a ELSE b

\* task ids are the arrival numbers of the EVALUATE_JOB messages
MaxOf(a, b) == IF a > b THEN a ELSE b
Tasks == 1 .. MaxOf(MaxOf(MaxTasks, MaxCapTasks), MaxOf(MaxRetryTasks, MaxRotationTasks))

\* const allProviders in getConfiguredProviders
allProviders == <<"ollama", "openai", "anthropic", "openrouter", "google", "groq">>

Providers == {allProviders[i] : i \in 1 .. Len(allProviders)}

\* the value of `inFlight` when no task holds the slot
null == [task |-> -1, provider |-> "null"]
\* what Array.prototype.shift returns on an empty array
undefined == 0

\* the settings records the user can have saved
SettingsChoices ==
  { [apiKeys |-> {}, activeProviders |-> <<>>, apiProvider |-> "ollama"],
    [apiKeys |-> {"openai", "groq"}, activeProviders |-> <<"groq", "openai">>,
     apiProvider |-> "groq"],
    [apiKeys |-> {"openai", "anthropic", "groq"}, activeProviders |-> <<>>,
     apiProvider |-> "openai"] }

VARIABLES
  pendingQueue,       \* the waiting list (task ids, in arrival order)
  inFlight,           \* the in-flight slot: null or [task, provider]
  lastProviderIndex,  \* the rotation cursor
  settings,           \* the stored settings record
  starters,           \* tryStartNext calls suspended at `await getSettings()`
  run,                \* per task: the position of its runEvalTask invocation
  submitted,          \* number of EVALUATE_JOB messages received
  startOrder,         \* history: tasks in the order runEvalTask was first called
  notified,           \* history: EVALUATION_COMPLETE messages sent per task
  reason,             \* history: error text of the last EVALUATION_COMPLETE
  rateLimited,        \* history: EVALUATION_RATE_LIMITED messages sent per task
  rlSent,             \* history: per task, the last EVALUATION_RATE_LIMITED
                      \* message and the number of them sent
  sinceFirst,         \* history: time since the first attempt of a live task
                      \* started (kept when the task is given up)
  emptyPops,          \* history: tryStartNext continuations that shifted nothing
  advances,           \* history: number of getNextProvider calls
  assigned,           \* history: the provider each task was admitted with
  gaveUp,             \* history: tasks abandoned by the rate-limit branch
  cache,              \* the jobEvaluations store: per cacheKey, the task whose
                      \* result the record holds (0: no record)
  orphan,             \* per task: the age of a provider call that lost its race
                      \* and is still outstanding (0: none, -1: settled late)
  inFlightCount,          \* multi-slot scheduler: runEvalTask calls not ended
  providerInFlightCount,  \* multi-slot scheduler: per provider, calls counted
  rotation,               \* multi-slot scheduler: the number stored under
                          \* PROVIDER_ROTATION_KEY (-1: nothing stored)
  calls,                  \* multi-slot scheduler: the suspended tryStartNext calls
  reply,                  \* reply parser: the reply object and how it was written
  text,                   \* reply parser: the reply text, then the cleaned text
  raw,                    \* reply parser: what parseJsonFromResponse returned
  result,                 \* reply parser: what normalizeResult returned
  stage,                  \* reply parser: how far evaluateJob has got with the reply
  http,                   \* provider client: the provider asked and its response
  thrown,                 \* provider client: the error evaluateJob throws for it
  store,                  \* resume store: the records of the object store
  adds,                   \* resume store: per record, the position of its addResume call
  clock,                  \* resume store: Date.now()
  sent,                   \* resume selection: the task, and the resumes evaluateJob gets
  jobEvaluations,         \* result cache: the records of job_evaluations by jobId
  saved,                  \* result cache: the last saveJobEvaluation call
  readBack,               \* result cache: the last getJobEvaluation call and its value
  ui,                     \* popup and side panel: runEvaluation and what it showed and sent
  resolved,               \* provider resolution: what getConfiguredProviders returned
  surfaces,               \* who can receive: a listener for runtime messages (a
                          \* popup or side panel is open), the tab that sent the task
  undelivered,            \* history: the messages whose delivery was rejected
  panel                   \* side panel: what it displays, its processing list and
                          \* the last EVALUATION_COMPLETE message it received

vars == <<pendingQueue, inFlight, lastProviderIndex, settings, starters, run,
          submitted, startOrder, notified, reason, rateLimited, rlSent,
          sinceFirst, emptyPops, advances, assigned, gaveUp, cache, orphan,
          inFlightCount, providerInFlightCount, rotation, calls,
          reply, text, raw, result, stage, http, thrown,
          store, adds, clock, sent, jobEvaluations, saved, readBack, ui,
          resolved, surfaces, undelivered, panel>>

\* the state of the multi-slot scheduler of service-worker.ts
multi == <<inFlightCount, providerInFlightCount, rotation, calls>>

\* the state of the library code the schedulers call (llm.ts, db.ts)
parser == <<reply, text, raw, result, stage>>
transport == <<http, thrown>>
resumeStore == <<store, adds, clock, sent>>
resultCache == <<jobEvaluations, saved, readBack>>
libs == <<parser, transport, resumeStore, resultCache, ui, panel>>
\* the surfaces the service worker sends messages to
messaging == <<surfaces, undelivered>>
lib == <<libs, resolved, messaging>>

\* the resumes ever uploaded, by the number of their upload
ResumeIds == 1 .. MaxAdds

\* what lies outside the scheduler's own variables
outside == <<cache, orphan>>

hist == <<startOrder, notified, reason, rateLimited, rlSent, sinceFirst, emptyPops,
          advances, assigned, gaveUp>>

ClockCap == TASK_FAIL_TIMEOUT_MS + RATE_LIMIT_RETRY_MS

idleRun == [phase |-> "idle", provider |-> "null", retryAttempt |-> 0,
            elapsed |-> 0, timer |-> 0]

(* ---------- pure functions ---------- *)

\* a provider has a credential only if a key is stored for it
hasStoredKey(s, p) == p \in s.apiKeys

\* hasKey: ollama needs no key, the others a key that is not blank
hasKey(s, p) == p = "ollama" \/ p \in s.apiKeys

getConfiguredProviders(s) ==
  LET fromActive == SelectSeq(s.activeProviders, LAMBDA p : hasKey(s, p))
      providers  == SelectSeq(allProviders, LAMBDA p : hasKey(s, p))
  IN  IF Len(s.activeProviders) > 0 /\ Len(fromActive) > 0 THEN fromActive
      ELSE IF Len(providers) > 0 THEN providers
      ELSE <<s.apiProvider>>

\* the cursor after getNextProvider(configured)
nextIndex(last, configured) == (last + 1) % Len(configured)

\* a shift that removes the newest entry instead of the oldest
shiftLast(q) ==
  IF Len(q) = 0 THEN [task |-> undefined, rest |-> q]
  ELSE [task |-> q[Len(q)], rest |-> SubSeq(q, 1, Len(q) - 1)]

\* pendingQueue.shift(): the element removed and the list left
shift(q) ==
  IF Len(q) = 0 THEN [task |-> undefined, rest |-> q]
  ELSE [task |-> Head(q), rest |-> Tail(q)]

\* the HTTP-layer timeout evaluateJob arms for the provider (the reply's
\* body is taken to arrive with its headers, where the abort timer is cleared)
httpTimeout(p) == IF p = "ollama" THEN OLLAMA_TIMEOUT_MS ELSE REQUEST_TIMEOUT_MS

\* the time at which the Promise.race of an attempt must have settled
raceLimit(p) == Min(TASK_FAIL_TIMEOUT_MS, httpTimeout(p))

Active(t) == run[t].phase \in {"settings", "race", "save", "saved", "backoff"}

\* `cacheKey: msg.cacheKey ?? msg.job.id` of the t-th message: the page asks
\* for every job twice
cacheKey(t) == (t + 1) \div 2
CacheKeys == {cacheKey(t) : t \in Tasks}

(* ---------- initial state ---------- *)

\* a service worker that has just been loaded
SchedulerLoaded ==
  /\ pendingQueue = <<>>
  /\ inFlight = null
  /\ lastProviderIndex = -1
  /\ starters = 0
  /\ run = [t \in Tasks |-> idleRun]
  /\ submitted = 0
  /\ startOrder = <<>>
  /\ notified = [t \in Tasks |-> 0]
  /\ reason = [t \in Tasks |-> "none"]
  /\ rateLimited = [t \in Tasks |-> 0]
  /\ rlSent = [t \in Tasks |-> <<>>]
  /\ surfaces = [listener |-> TRUE, tab |-> TRUE]
  /\ undelivered = {}
  /\ sinceFirst = [t \in Tasks |-> 0]
  /\ emptyPops = 0
  /\ advances = 0
  /\ assigned = [t \in Tasks |-> "null"]
  /\ gaveUp = [t \in Tasks |-> FALSE]
  /\ cache = [k \in CacheKeys |-> 0]
  /\ orphan = [t \in Tasks |-> 0]
  /\ inFlightCount = 0
  /\ providerInFlightCount = [p \in Providers |-> 0]
  /\ rotation = -1
  /\ calls = <<>>
  /\ resolved = <<>>

\* no reply has been received
ParserIdle ==
  /\ reply = <<>>
  /\ text = <<>>
  /\ raw = <<>>
  /\ result = <<>>
  /\ stage = "idle"

\* no request has been sent
TransportIdle ==
  /\ http = <<>>
  /\ thrown = "idle"

\* the resume store is empty and no call is under way
ResumesEmpty ==
  /\ store = {}
  /\ adds = [id \in ResumeIds |-> [pc |-> "idle", createdAt |-> 0]]
  /\ clock = 0
  /\ sent = <<>>

\* the result cache is empty and has not been called
CacheEmpty ==
  /\ jobEvaluations = <<>>
  /\ saved = <<>>
  /\ readBack = <<>>

\* no popup or side panel is open
UiClosed == ui = <<>> /\ panel = <<>>

LibIdle == ParserIdle /\ TransportIdle /\ ResumesEmpty /\ CacheEmpty /\ UiClosed

Loaded == SchedulerLoaded /\ LibIdle

Init == Loaded /\ settings \in SettingsChoices

(* ---------- the scheduler ---------- *)

\* the synchronous head of tryStartNext: both early returns passed, so the
\* call suspends at `await getSettings()`
tryStartNextSuspends(slot, queue) == slot = null /\ Len(queue) > 0

\* chrome.runtime.sendMessage(...).catch(() => {}): the promise rejects when
\* no popup or side panel listens; the rejection is dropped
rejected(t, type) == IF surfaces.listener THEN {} ELSE {<<t, type>>}

\* chrome.tabs.sendMessage of SET_JOB_SCORES rejects when the tab is closed
setJobScoresRejected(t) == IF surfaces.tab THEN {} ELSE {<<t, "SET_JOB_SCORES">>}

\* a SET_JOB_SCORES block without its try/catch: the rejection reaches the
\* catch branch of runEvalTask
setJobScoresThrows(tabOpen) == IF tabOpen THEN "none" ELSE "tab closed"

\* the error that leaves the best-effort SET_JOB_SCORES block: try { await
\* chrome.tabs.sendMessage(...) } catch { /* tab closed */ }
setJobScores(tabOpen) == "none"

\* done(result, error, raw) of the attempt of task t
done(t, error) ==
  /\ inFlight' = null
  /\ undelivered' = undelivered
       \cup (IF run[t].phase = "race" /\ error = "Rate limited."
             THEN rejected(t, "EVALUATION_RATE_LIMITED") ELSE {})
       \cup (IF run[t].phase = "saved" THEN setJobScoresRejected(t) ELSE {})
       \cup rejected(t, "EVALUATION_COMPLETE")
  /\ notified' = [notified EXCEPT ![t] = @ + 1]
  /\ reason' = [reason EXCEPT ![t] = error]
  /\ starters' = IF tryStartNextSuspends(null, pendingQueue) THEN starters + 1
                 ELSE starters
  /\ run' = [run EXCEPT ![t] = [idleRun EXCEPT !.phase = "done"]]
  /\ sinceFirst' = [sinceFirst EXCEPT ![t] = IF gaveUp'[t] THEN @ ELSE 0]
  /\ UNCHANGED <<libs, resolved, surfaces, pendingQueue, lastProviderIndex>>

\* onMessage EVALUATE_JOB: push the task, call tryStartNext, acknowledge
Submit(limit) ==
  /\ submitted < limit
  /\ submitted' = submitted + 1
  /\ pendingQueue' = Append(pendingQueue, submitted + 1)
  /\ run' = [run EXCEPT ![submitted + 1].phase = "queued"]
  /\ starters' = IF tryStartNextSuspends(inFlight, pendingQueue') THEN starters + 1
                 ELSE starters
  /\ UNCHANGED <<lib, inFlight, lastProviderIndex, settings, hist, outside, multi>>

\* tryStartNext resumed after `await getSettings()`
TryStartNext ==
  /\ starters > 0
  /\ starters' = starters - 1
  /\ LET configured == getConfiguredProviders(settings)
         s == shift(pendingQueue)
         idx == nextIndex(lastProviderIndex, configured)
     IN  IF Len(configured) = 0
         THEN UNCHANGED <<lib, pendingQueue, inFlight, lastProviderIndex, run, hist>>
         ELSE /\ pendingQueue' = s.rest
              /\ lastProviderIndex' = idx
              /\ advances' = advances + 1
              /\ inFlight' = [task |-> s.task, provider |-> configured[idx + 1]]
              /\ IF s.task = undefined
                 THEN \* `task.job.id` throws: runEvalTask is never called
                      /\ emptyPops' = emptyPops + 1
                      /\ UNCHANGED <<lib, run, startOrder, sinceFirst, assigned>>
                 ELSE /\ run' = [run EXCEPT ![s.task] =
                                   [idleRun EXCEPT !.phase = "settings",
                                                   !.provider = configured[idx + 1]]]
                      /\ startOrder' = Append(startOrder, s.task)
                      /\ sinceFirst' = [sinceFirst EXCEPT ![s.task] = 0]
                      /\ assigned' = [assigned EXCEPT ![s.task] = configured[idx + 1]]
                      /\ UNCHANGED emptyPops
              /\ UNCHANGED <<lib, notified, reason, rateLimited, rlSent, gaveUp>>
  /\ UNCHANGED <<lib, settings, submitted, outside, multi>>

\* `await getSettings()` of tryStartNext rejects: the call ends there, with
\* nothing to catch the rejection
TryStartNextFails ==
  /\ starters > 0
  /\ starters' = starters - 1
  /\ UNCHANGED <<lib, pendingQueue, inFlight, lastProviderIndex, settings, run,
                 submitted, hist, outside, multi>>

\* an attempt that sends its request whether or not a key is stored
StartCallUnchecked(t) ==
  /\ run[t].phase = "settings"
  /\ run' = [run EXCEPT ![t].phase = "race", ![t].timer = 0]
  /\ UNCHANGED <<lib, pendingQueue, inFlight, lastProviderIndex, settings, starters,
                 submitted, hist, outside, multi>>

\* runEvalTask resumed after getSettings and getAllResumes: the provider call
\* and the 2-minute timer are started and raced
StartCall(t) ==
  /\ run[t].phase = "settings"
  /\ UNCHANGED <<libs, resolved, pendingQueue, lastProviderIndex, settings, submitted,
                 startOrder, rateLimited, rlSent, emptyPops, advances, assigned, gaveUp,
                 outside, multi>>
  /\ IF hasKey(settings, run[t].provider)
     THEN /\ run' = [run EXCEPT ![t].phase = "race", ![t].timer = 0]
          /\ UNCHANGED <<lib, inFlight, starters, notified, reason, sinceFirst>>
     ELSE \* evaluateJob rejects at once: 'API key required for this provider.'
          /\ done(t, "API key required")

\* `await getSettings()` or `await getAllResumes()` of runEvalTask rejects:
\* the catch branch
ReadFails(t) ==
  /\ run[t].phase = "settings"
  /\ UNCHANGED <<libs, resolved, settings, submitted, startOrder, rateLimited, rlSent, emptyPops,
                 advances, assigned, gaveUp, outside, multi>>
  /\ done(t, "read failed")

\* the provider call resolves first: the result is being saved
ProviderOk(t) ==
  /\ run[t].phase = "race"
  /\ run[t].timer < raceLimit(run[t].provider)
  /\ run' = [run EXCEPT ![t].phase = "save", ![t].timer = 0, ![t].elapsed = 0]
  /\ UNCHANGED <<lib, pendingQueue, inFlight, lastProviderIndex, settings, starters,
                 submitted, hist, outside, multi>>

\* saveJobEvaluation: the put of {jobId: cacheKey, result} succeeds
CachePut(t) ==
  /\ run[t].phase = "save"
  /\ cache' = [cache EXCEPT ![cacheKey(t)] = t]
  /\ run' = [run EXCEPT ![t].phase = "saved"]
  /\ UNCHANGED <<lib, pendingQueue, inFlight, lastProviderIndex, settings, starters,
                 submitted, hist, orphan, multi>>

\* a failed save that is tried again after the retry delay
SaveFailedRetries(t) ==
  /\ run[t].phase = "save"
  /\ run' = [run EXCEPT ![t].phase = "backoff", ![t].timer = 0]
  /\ UNCHANGED <<lib, pendingQueue, inFlight, lastProviderIndex, settings, starters,
                 submitted, hist, outside, multi>>

\* saveJobEvaluation: openDB or the put fails, the promise rejects: the
\* catch branch
SaveFailed(t) ==
  /\ run[t].phase = "save"
  /\ UNCHANGED <<libs, resolved, settings, submitted, startOrder, rateLimited, rlSent, emptyPops,
                 advances, assigned, gaveUp, outside, multi>>
  /\ done(t, "save failed")

\* the trim after the put, saveJobEvaluation's promise and the best-effort
\* SET_JOB_SCORES have settled: done(result)
SaveDone(t) ==
  /\ run[t].phase = "saved"
  /\ UNCHANGED <<libs, resolved, settings, submitted, startOrder, rateLimited, rlSent, emptyPops,
                 advances, assigned, gaveUp, outside, multi>>
  /\ done(t, setJobScores(surfaces.tab))

\* the provider call rejects first with an error other than 'Rate limited.'
\* (the HTTP-layer abort included)
ProviderError(t) ==
  /\ run[t].phase = "race"
  /\ run[t].timer <= httpTimeout(run[t].provider)
  /\ run[t].timer < TASK_FAIL_TIMEOUT_MS
  /\ UNCHANGED <<libs, resolved, settings, submitted, startOrder, rateLimited, rlSent, emptyPops,
                 advances, assigned, gaveUp, outside, multi>>
  /\ done(t, "provider error")

\* a message that carries the number of the attempt that failed
attemptMessage(t, retryCount) ==
  [cacheKey |-> cacheKey(t), provider |-> run[t].provider,
   retryCount |-> retryCount - 1]

\* the EVALUATION_RATE_LIMITED message of task t
rateLimitedMessage(t, retryCount) ==
  [cacheKey |-> cacheKey(t), provider |-> run[t].provider,
   retryCount |-> retryCount]

\* the provider call rejects first with 'Rate limited.': the catch branch
ProviderRateLimited(t) ==
  /\ run[t].phase = "race"
  /\ run[t].timer < raceLimit(run[t].provider)
  /\ LET elapsed == run[t].elapsed
         retryCount == Min(run[t].retryAttempt + 1, MaxRetry)
     IN  /\ rateLimited' = [rateLimited EXCEPT ![t] = retryCount]
         /\ rlSent' = [rlSent EXCEPT ![t] =
              [message |-> rateLimitedMessage(t, retryCount),
               n |-> Min((IF @ = <<>> THEN 0 ELSE @.n) + 1, MaxRetry)]]
         /\ IF elapsed >= TASK_FAIL_TIMEOUT_MS
            THEN \* 'gave up after 2 min (rate limited)'
                 /\ gaveUp' = [gaveUp EXCEPT ![t] = TRUE]
                 /\ done(t, "Rate limited.")
            ELSE /\ run' = [run EXCEPT ![t].phase = "backoff", ![t].timer = 0,
                                       ![t].elapsed = 0,
                                       ![t].retryAttempt = retryCount]
                 /\ undelivered' = undelivered \cup rejected(t, "EVALUATION_RATE_LIMITED")
                 /\ UNCHANGED <<libs, resolved, surfaces, pendingQueue, inFlight,
                                lastProviderIndex, starters, notified, reason,
                                gaveUp, sinceFirst>>
  /\ UNCHANGED <<libs, resolved, settings, submitted, startOrder, emptyPops, advances,
                 assigned, outside, multi>>

\* the 10-second timer fires: runEvalTask(task, provider, retryCount)
RetryFire(t) ==
  /\ run[t].phase = "backoff"
  /\ run[t].timer >= RATE_LIMIT_RETRY_MS
  /\ run' = [run EXCEPT ![t].phase = "settings", ![t].timer = 0, ![t].elapsed = 0]
  /\ UNCHANGED <<lib, pendingQueue, inFlight, lastProviderIndex, settings, starters,
                 submitted, hist, outside, multi>>

\* a 2-minute timer whose rejection is reported like a provider's error
DeadlineTimerAsError(t) ==
  /\ run[t].phase = "race"
  /\ run[t].timer >= TASK_FAIL_TIMEOUT_MS
  /\ orphan' = [orphan EXCEPT ![t] =
       IF run[t].timer < httpTimeout(run[t].provider) THEN run[t].timer ELSE 0]
  /\ UNCHANGED <<libs, resolved, settings, submitted, startOrder, rateLimited, rlSent, emptyPops,
                 advances, assigned, gaveUp, cache, multi>>
  /\ done(t, "provider error")

\* the 2-minute timer rejects first: 'Timeout (2 min)'.  Nothing aborts the
\* fetch of evaluateJob, which stays outstanding until it settles or its own
\* timer aborts it
DeadlineTimer(t) ==
  /\ run[t].phase = "race"
  /\ run[t].timer >= TASK_FAIL_TIMEOUT_MS
  /\ orphan' = [orphan EXCEPT ![t] =
       IF run[t].timer < httpTimeout(run[t].provider) THEN run[t].timer ELSE 0]
  /\ UNCHANGED <<libs, resolved, settings, submitted, startOrder, rateLimited, rlSent, emptyPops,
                 advances, assigned, gaveUp, cache, multi>>
  /\ done(t, "Timeout (2 min)")

\* a late provider call whose settling is reported as one more completion
OrphanSettlesNotifies(t) ==
  /\ orphan[t] > 0
  /\ orphan' = [orphan EXCEPT ![t] = -1]
  /\ notified' = [notified EXCEPT ![t] = @ + 1]
  /\ UNCHANGED <<lib, pendingQueue, inFlight, lastProviderIndex, settings, starters,
                 run, submitted, startOrder, reason, rateLimited, rlSent, sinceFirst,
                 emptyPops, advances, assigned, gaveUp, cache, multi>>

\* a provider call settles after its race was lost: the promise returned by
\* Promise.race is already rejected, so no continuation runs
OrphanSettles(t) ==
  /\ orphan[t] > 0
  /\ orphan' = [orphan EXCEPT ![t] = -1]
  /\ UNCHANGED <<lib, pendingQueue, inFlight, lastProviderIndex, settings, starters,
                 run, submitted, hist, cache, multi>>

\* the user saves other settings in the panel
SaveSettings ==
  /\ settings' \in SettingsChoices \ {settings}
  /\ UNCHANGED <<lib, pendingQueue, inFlight, lastProviderIndex, starters, run,
                 submitted, hist, outside, multi>>

\* the user opens or closes the popup or side panel, or the tab of the job
SurfaceChanges ==
  /\ surfaces' \in [listener : BOOLEAN, tab : BOOLEAN] \ {surfaces}
  /\ UNCHANGED <<libs, resolved, undelivered, pendingQueue, inFlight, lastProviderIndex,
                 settings, starters, run, submitted, hist, outside, multi>>

\* RATE_LIMIT_RETRY_MS of wall-clock time pass; no armed timer is overrun
Tick ==
  /\ \E t \in Tasks : run[t].phase \in {"settings", "race", "backoff"} \/ orphan[t] > 0
  /\ \A t \in Tasks :
       /\ orphan[t] > 0 => orphan[t] < httpTimeout(assigned[t])
       /\ run[t].phase = "settings" => run[t].elapsed < MaxReadTicks * RATE_LIMIT_RETRY_MS
       /\ run[t].phase = "race" => run[t].timer < raceLimit(run[t].provider)
       /\ run[t].phase = "backoff" => run[t].timer < RATE_LIMIT_RETRY_MS
  /\ run' = [t \in Tasks |->
       IF run[t].phase \in {"settings", "race"}
       THEN [run[t] EXCEPT !.elapsed = @ + RATE_LIMIT_RETRY_MS,
                           !.timer = IF run[t].phase = "race"
                                     THEN @ + RATE_LIMIT_RETRY_MS ELSE @]
       ELSE IF run[t].phase = "backoff"
       THEN [run[t] EXCEPT !.timer = @ + RATE_LIMIT_RETRY_MS]
       ELSE run[t]]
  /\ sinceFirst' = [t \in Tasks |->
       IF Active(t) THEN Min(sinceFirst[t] + RATE_LIMIT_RETRY_MS, ClockCap)
       ELSE sinceFirst[t]]
  /\ orphan' = [t \in Tasks |->
       IF orphan[t] > 0 THEN orphan[t] + RATE_LIMIT_RETRY_MS ELSE orphan[t]]
  /\ UNCHANGED <<lib, pendingQueue, inFlight, lastProviderIndex, settings, starters,
                 submitted, startOrder, notified, reason, rateLimited, rlSent,
                 emptyPops, advances, assigned, gaveUp, cache, multi>>

(* ---------- the multi-slot scheduler of service-worker.ts ---------- *)

\* the settings records of the multi-slot scheduler: one more, whose active
\* providers have no key
MultiSettingsChoices ==
  SettingsChoices \cup
    { [apiKeys |-> {}, activeProviders |-> <<"openai", "groq">>,
       apiProvider |-> "openai"] }

\* getConfiguredProviders of service-worker.ts
getConfiguredProvidersMulti(s) ==
  LET providers == SelectSeq(allProviders, LAMBDA p : hasKey(s, p))
  IN  IF Len(s.activeProviders) > 0
      THEN SelectSeq(s.activeProviders, LAMBDA p : hasKey(s, p))
      ELSE IF Len(providers) > 0 THEN providers
      ELSE <<s.apiProvider>>

\* nextIndex of peekNextProvider and getNextProvider, from the stored number
nextStoredIndex(stored, configured) ==
  LET lastIndex == IF stored >= Len(configured) \/ stored < 0 THEN -1 ELSE stored
  IN  (lastIndex + 1) % Len(configured)

peekNextProvider(stored, configured) ==
  IF Len(configured) = 1 THEN configured[1]
  ELSE configured[nextStoredIndex(stored, configured) + 1]

\* a tryStartNext call suspended at an await, with its local variables
call(pc, configured, task, provider) ==
  [pc |-> pc, configured |-> configured, task |-> task, provider |-> provider,
   peeked |-> "null", nextIndex |-> -1, before |-> -1]

RemoveAt(q, i) == SubSeq(q, 1, i - 1) \o SubSeq(q, i + 1, Len(q))

\* the synchronous head of tryStartNext: it suspends at `await getSettings()`
\* unless the queue is empty
tryStartNextMulti(queue, cs) ==
  IF Len(queue) = 0 THEN cs
  ELSE Append(cs, call("settings", <<>>, undefined, "null"))

\* the variables of the single-slot scheduler
single == <<inFlight, lastProviderIndex, starters>>

MultiInit == Loaded /\ settings \in MultiSettingsChoices

\* onMessage EVALUATE_JOB of service-worker.ts
SubmitMulti(limit) ==
  /\ submitted < limit
  /\ submitted' = submitted + 1
  /\ pendingQueue' = Append(pendingQueue, submitted + 1)
  /\ run' = [run EXCEPT ![submitted + 1].phase = "queued"]
  /\ calls' = tryStartNextMulti(pendingQueue', calls)
  /\ UNCHANGED <<lib, single, settings, hist, outside, inFlightCount,
                 providerInFlightCount, rotation>>

\* a tryStartNext that takes the head task although nothing is configured
ResumeAfterSettingsDrops(i) ==
  /\ calls[i].pc = "settings"
  /\ LET configured == getConfiguredProvidersMulti(settings)
     IN  IF Len(configured) = 0
         THEN /\ calls' = RemoveAt(calls, i)
              /\ pendingQueue' = shift(pendingQueue).rest
         ELSE /\ calls' = [calls EXCEPT ![i] = call("peek", configured, undefined, "null")]
              /\ UNCHANGED pendingQueue
  /\ UNCHANGED <<lib, single, settings, run, submitted, hist, outside,
                 inFlightCount, providerInFlightCount, rotation>>

\* tryStartNext resumed after `await getSettings()`: it returns when nothing
\* is configured, else it calls peekNextProvider and awaits it
ResumeAfterSettings(i) ==
  /\ calls[i].pc = "settings"
  /\ LET configured == getConfiguredProvidersMulti(settings)
     IN  IF Len(configured) = 0
         THEN /\ calls' = RemoveAt(calls, i)
              /\ UNCHANGED pendingQueue
         ELSE /\ calls' = [calls EXCEPT ![i] = call("peek", configured, undefined, "null")]
              /\ UNCHANGED pendingQueue
  /\ UNCHANGED <<lib, single, settings, run, submitted, hist, outside,
                 inFlightCount, providerInFlightCount, rotation>>

\* tryStartNext resumed after `await peekNextProvider(configured)`: the slot
\* check, the shift, and the call of getNextProvider
ResumeAfterPeek(i) ==
  /\ calls[i].pc = "peek"
  /\ LET c == calls[i]
         nextProvider == peekNextProvider(rotation, c.configured)
         s == shift(pendingQueue)
     IN  IF providerInFlightCount[nextProvider] >= MAX_PER_PROVIDER
         THEN /\ calls' = RemoveAt(calls, i)
              /\ UNCHANGED <<lib, pendingQueue, run>>
         ELSE /\ pendingQueue' = s.rest
              /\ calls' = [calls EXCEPT ![i] =
                             [call("advance", c.configured, s.task, "null")
                                EXCEPT !.peeked = nextProvider]]
              /\ run' = IF s.task = undefined THEN run
                        ELSE [run EXCEPT ![s.task].phase = "shifted"]
  /\ UNCHANGED <<lib, single, settings, submitted, hist, outside, inFlightCount,
                 providerInFlightCount, rotation>>

\* getNextProvider: the only provider is returned at once; else the stored
\* number is read, nextIndex is computed from it and
\* chrome.storage.local.set is awaited
ResumeAdvance(i) ==
  /\ calls[i].pc = "advance"
  /\ LET c == calls[i]
         idx == nextStoredIndex(rotation, c.configured)
     IN  IF Len(c.configured) = 1
         THEN calls' = [calls EXCEPT ![i].pc = "start",
                                     ![i].provider = c.configured[1]]
         ELSE calls' = [calls EXCEPT ![i].pc = "set", ![i].nextIndex = idx]
  /\ UNCHANGED <<lib, single, pendingQueue, settings, run, submitted, hist, outside,
                 inFlightCount, providerInFlightCount, rotation>>

\* getNextProvider resumed after `await chrome.storage.local.set`: nextIndex
\* is stored and configuredProviders[nextIndex] is returned; the call keeps
\* the number that was stored before
ResumeStored(i) ==
  /\ calls[i].pc = "set"
  /\ rotation' = calls[i].nextIndex
  /\ calls' = [calls EXCEPT ![i].pc = "start",
                            ![i].provider = calls[i].configured[calls[i].nextIndex + 1],
                            ![i].before = rotation]
  /\ UNCHANGED <<lib, single, pendingQueue, settings, run, submitted, hist, outside,
                 inFlightCount, providerInFlightCount>>

\* tryStartNext resumed after `await getNextProvider(configured)`:
\* runEvalTask(task, provider), up to its `await getSettings()`
StartRun(i) ==
  /\ calls[i].pc = "start"
  /\ inFlightCount' = inFlightCount + 1
  /\ LET c == calls[i]
     IN  IF c.task = undefined
         THEN /\ calls' = [calls EXCEPT ![i] =
                             call("no task", c.configured, c.task, c.provider)]
              /\ UNCHANGED run
         ELSE /\ calls' = RemoveAt(calls, i)
              /\ run' = [run EXCEPT ![c.task] =
                            [idleRun EXCEPT !.phase = "settings",
                                            !.provider = c.provider,
                                            !.retryAttempt = run[c.task].retryAttempt]]
  /\ UNCHANGED <<lib, single, pendingQueue, settings, submitted, hist, outside,
                 providerInFlightCount, rotation>>

\* runEvalTask(undefined, provider) resumed after `await getSettings()`: the
\* provider is counted, then `await getAllResumes()`
NoTaskCounted(i) ==
  /\ calls[i].pc = "no task"
  /\ providerInFlightCount' =
       [providerInFlightCount EXCEPT ![calls[i].provider] = @ + 1]
  /\ calls' = [calls EXCEPT ![i].pc = "no task counted"]
  /\ UNCHANGED <<lib, single, pendingQueue, settings, run, submitted, hist, outside,
                 inFlightCount, rotation>>

\* runEvalTask(undefined, provider): reading the task throws; the finally
\* block uncounts the provider and throws again at `task.cacheKey`, before
\* `inFlightCount--` and tryStartNext()
NoTaskThrows(i) ==
  /\ calls[i].pc = "no task counted"
  /\ providerInFlightCount' =
       [providerInFlightCount EXCEPT ![calls[i].provider] =
          IF @ - 1 <= 0 THEN 0 ELSE @ - 1]
  /\ calls' = RemoveAt(calls, i)
  /\ UNCHANGED <<lib, single, pendingQueue, settings, run, submitted, hist, outside,
                 inFlightCount, rotation>>

\* runEvalTask resumed after `await getSettings()`: the provider is counted
\* and, after the stagger delay and getAllResumes, evaluateJob is called
StartCallMulti(t) ==
  /\ run[t].phase = "settings"
  /\ providerInFlightCount' =
       [providerInFlightCount EXCEPT ![run[t].provider] = @ + 1]
  /\ run' = [run EXCEPT ![t].phase = "call"]
  /\ UNCHANGED <<lib, single, pendingQueue, settings, submitted, hist, outside,
                 inFlightCount, rotation, calls>>

\* the finally block of runEvalTask, after the catch block has left `queue`
finallyMulti(t, error, queue) ==
  /\ providerInFlightCount' =
       [providerInFlightCount EXCEPT ![run[t].provider] =
          IF @ - 1 <= 0 THEN 0 ELSE @ - 1]
  /\ notified' = [notified EXCEPT ![t] = @ + 1]
  /\ reason' = [reason EXCEPT ![t] = error]
  /\ inFlightCount' = inFlightCount - 1
  /\ pendingQueue' = queue
  /\ calls' = tryStartNextMulti(queue, calls)
  /\ UNCHANGED <<lib, single, settings, submitted, startOrder, rateLimited, rlSent,
                 sinceFirst, emptyPops, advances, assigned, gaveUp, outside,
                 rotation>>

\* evaluateJob resolves: saveJobEvaluation is called
ProviderOkMulti(t) ==
  /\ run[t].phase = "call"
  /\ hasKey(settings, run[t].provider)
  /\ run' = [run EXCEPT ![t].phase = "save"]
  /\ UNCHANGED <<lib, single, pendingQueue, settings, submitted, hist, outside, multi>>

\* evaluateJob rejects with an error other than 'Rate limited.'
ProviderErrorMulti(t) ==
  /\ run[t].phase = "call"
  /\ run' = [run EXCEPT ![t] = [idleRun EXCEPT !.phase = "done"]]
  /\ finallyMulti(t, IF hasKey(settings, run[t].provider) THEN "provider error"
                     ELSE "API key required", pendingQueue)

\* evaluateJob rejects with 'Rate limited.': the task is pushed back
ProviderRateLimitedMulti(t) ==
  /\ run[t].phase = "call"
  /\ hasKey(settings, run[t].provider)
  /\ run[t].retryAttempt < MaxRequeue
  /\ run' = [run EXCEPT ![t] = [idleRun EXCEPT !.phase = "queued",
                                               !.retryAttempt = run[t].retryAttempt + 1]]
  /\ finallyMulti(t, "Rate limited.", Append(pendingQueue, t))

\* saveJobEvaluation and the best-effort SET_JOB_SCORES have settled
SaveDoneMulti(t) ==
  /\ run[t].phase = "saved"
  /\ run' = [run EXCEPT ![t] = [idleRun EXCEPT !.phase = "done"]]
  /\ finallyMulti(t, "none", pendingQueue)

(* ---------- the reply parser of llm.ts ---------- *)

\* A text is a sequence of chunks of characters: a punctuation character,
\* one white-space character, a run of letters or a run of digits.
Q == "\""
BS == "\\"
LF == "LF"
CR == "CR"
SP == "SP"
FENCE == "FENCE"
Ws == {SP, LF, CR}

\* the digit runs the replies are written with, and their values
Numerals == ("0" :> 0) @@ ("5" :> 5) @@ ("85" :> 85) @@ ("150" :> 150)

\* JavaScript values: a tag, and under v the value of a number (an integer),
\* of a string (a text), of an array (a sequence of values) or of an object
\* (a function from property names to values)
undefinedV == [t |-> "undefined"]
nullV == [t |-> "null"]
num(n) == [t |-> "num", v |-> n]
str(s) == [t |-> "str", v |-> s]
arr(a) == [t |-> "arr", v |-> a]
obj(f) == [t |-> "obj", v |-> f]

\* the object with the members ms (pairs of name and value), a later member
\* replacing an earlier one of the same name
RECURSIVE members(_)
members(ms) ==
  IF ms = <<>> THEN <<>>
  ELSE (ms[Len(ms)][1] :> ms[Len(ms)][2]) @@ members(SubSeq(ms, 1, Len(ms) - 1))

\* raw.name
get(o, name) == IF name \in DOMAIN o.v THEN o.v[name] ELSE undefinedV

\* JSON.parse: the outcome of reading one value of s from position p on
fail == [ok |-> FALSE, v |-> nullV, p |-> 0]
read(v, p) == [ok |-> TRUE, v |-> v, p |-> p]

\* the first of a set of positions, 0 for the empty set
first(ps) == IF ps = {} THEN 0 ELSE CHOOSE p \in ps : \A q \in ps : p <= q

\* the position of the first character from p on that is not white space
skipWs(s, p) == first({q \in p .. Len(s) + 1 : q > Len(s) \/ s[q] \notin Ws})

\* the parts of a text put together, from the lo-th to the hi-th
RECURSIVE flatten(_, _, _)
flatten(parts, lo, hi) ==
  IF lo > hi THEN <<>>
  ELSE IF lo = hi THEN parts[lo]
  ELSE flatten(parts, lo, (lo + hi) \div 2)
       \o flatten(parts, (lo + hi) \div 2 + 1, hi)

\* the characters an escape sequence of a JSON string stands for
Escapes == ("n" :> LF) @@ ("r" :> CR) @@ (Q :> Q) @@ (BS :> BS)

\* the rest of a string whose opening quote has been read; a control
\* character (a line break) inside a string is a syntax error
RECURSIVE stringBody(_, _, _)
stringBody(s, p, acc) ==
  IF p > Len(s) \/ s[p] \in {LF, CR} THEN fail
  ELSE IF s[p] = Q THEN read(str(acc), p + 1)
  ELSE IF s[p] = BS
         THEN IF p + 1 <= Len(s) /\ s[p + 1] \in DOMAIN Escapes
                THEN stringBody(s, p + 2, Append(acc, Escapes[s[p + 1]]))
                ELSE fail
  ELSE stringBody(s, p + 1, Append(acc, s[p]))

RECURSIVE parseValue(_, _)
RECURSIVE parseMembers(_, _, _)
RECURSIVE parseElements(_, _, _)

parseValue(s, p) ==
  IF p > Len(s) THEN fail
  ELSE IF s[p] = Q THEN stringBody(s, p + 1, <<>>)
  ELSE IF s[p] \in DOMAIN Numerals THEN read(num(Numerals[s[p]]), p + 1)
  ELSE IF s[p] = "-"
         THEN IF p + 1 <= Len(s) /\ s[p + 1] \in DOMAIN Numerals
                THEN read(num(0 - Numerals[s[p + 1]]), p + 2)
                ELSE fail
  ELSE IF s[p] = "null" THEN read(nullV, p + 1)
  ELSE IF s[p] = "{"
         THEN LET q == skipWs(s, p + 1)
              IN IF q <= Len(s) /\ s[q] = "}" THEN read(obj(<<>>), q + 1)
                 ELSE parseMembers(s, q, <<>>)
  ELSE IF s[p] = "["
         THEN LET q == skipWs(s, p + 1)
              IN IF q <= Len(s) /\ s[q] = "]" THEN read(arr(<<>>), q + 1)
                 ELSE parseElements(s, q, <<>>)
  ELSE fail

\* the members of an object from position p on, acc being those read so far
parseMembers(s, p, acc) ==
  IF p > Len(s) \/ s[p] # Q THEN fail
  ELSE LET k == stringBody(s, p + 1, <<>>)
           c == IF k.ok THEN skipWs(s, k.p) ELSE 0
           v == IF k.ok /\ c <= Len(s) /\ s[c] = ":"
                  THEN parseValue(s, skipWs(s, c + 1)) ELSE fail
           e == IF v.ok THEN skipWs(s, v.p) ELSE 0
           all == IF v.ok THEN Append(acc, <<k.v.v, v.v>>) ELSE acc
       IN IF ~v.ok \/ e > Len(s) THEN fail
          ELSE IF s[e] = "}" THEN read(obj(members(all)), e + 1)
          ELSE IF s[e] = "," THEN parseMembers(s, skipWs(s, e + 1), all)
          ELSE fail

\* the elements of an array from position p on, acc being those read so far
parseElements(s, p, acc) ==
  LET v == parseValue(s, p)
      e == IF v.ok THEN skipWs(s, v.p) ELSE 0
      all == IF v.ok THEN Append(acc, v.v) ELSE acc
  IN IF ~v.ok \/ e > Len(s) THEN fail
     ELSE IF s[e] = "]" THEN read(arr(all), e + 1)
     ELSE IF s[e] = "," THEN parseElements(s, skipWs(s, e + 1), all)
     ELSE fail

\* JSON.parse(s): one value, white space around it, and nothing else
JSONparse(s) ==
  LET v == parseValue(s, skipWs(s, 1))
  IN IF v.ok /\ skipWs(s, v.p) = Len(s) + 1 THEN v ELSE fail

\* String.prototype.trim
RECURSIVE trim(_)
trim(s) ==
  IF s = <<>> THEN s
  ELSE IF s[1] \in Ws THEN trim(Tail(s))
  ELSE IF s[Len(s)] \in Ws THEN trim(SubSeq(s, 1, Len(s) - 1))
  ELSE s

\* the code fence pattern on a trimmed text: an opening fence, an optional
\* "json", the shortest content, and a closing fence that ends the text
codeFence(s) == Len(s) >= 2 /\ s[1] = FENCE /\ s[Len(s)] = FENCE

stripFence(s) ==
  IF codeFence(s)
    THEN LET from == IF Len(s) >= 3 /\ s[2] = "json" THEN 3 ELSE 2
         IN trim(SubSeq(s, from, Len(s) - 1))
    ELSE s

\* cleaned.indexOf(c) from position p on, 0 for none
indexOf(s, c, p) == first({q \in p .. Len(s) : s[q] = c})

\* the depth the brace scan has after position i, having started at
\* firstBrace: every brace of the text counts, those inside strings too
depth(s, firstBrace, i) ==
  Cardinality({j \in firstBrace .. i : s[j] = "{"})
    - Cardinality({j \in firstBrace .. i : s[j] = "}"})

\* the position where the scan ends: the first closing brace that brings
\* the depth to 0; 0 for none
matchingBrace(s, firstBrace) ==
  first({i \in firstBrace .. Len(s) :
           s[i] = "}" /\ depth(s, firstBrace, i) = 0})

extractObject(s) ==
  LET firstBrace == indexOf(s, "{", 1)
      end == IF firstBrace = 0 THEN 0 ELSE matchingBrace(s, firstBrace)
  IN IF end # 0 THEN SubSeq(s, firstBrace, end) ELSE s

\* cleaned.replace(/,(\s*[}\]])/g, '$1'): every comma followed by white
\* space and a closing bracket goes, wherever in the text it stands
removeTrailingCommas(s) ==
  flatten([p \in 1 .. Len(s) |->
             IF s[p] = "," /\ skipWs(s, p + 1) <= Len(s)
                           /\ s[skipWs(s, p + 1)] \in {"}", "]"}
               THEN <<>> ELSE <<s[p]>>],
          1, Len(s))

\* the text parseJsonFromResponse hands to JSON.parse
clean(s) == removeTrailingCommas(extractObject(stripFence(trim(s))))

\* the scan of fixNewlinesInsideJsonStrings at position i: `escape` is set
\* when an odd number of backslashes stands right before i, `inString` when
\* an odd number of quotes without that stands before i
backslashes(json, i) ==
  i - 1 - first({j \in 0 .. i - 1 : \A k \in j + 1 .. i - 1 : json[k] = BS})

escapeAt(json, i) == backslashes(json, i) % 2 = 1

inStringAt(json, i) ==
  Cardinality({j \in 1 .. i - 1 : json[j] = Q /\ ~escapeAt(json, j)}) % 2 = 1

\* a line break the scan rewrites: inside a string, with no backslash
breakAt(json, i) ==
  json[i] \in {LF, CR} /\ inStringAt(json, i) /\ ~escapeAt(json, i)

\* fixNewlinesInsideJsonStrings: a line break inside a string is written as
\* the escape sequence of a line feed, a carriage return with its line feed
\* as one
fixNewlinesInsideJsonStrings(json) ==
  flatten([i \in 1 .. Len(json) |->
             IF json[i] = LF /\ i > 1 /\ json[i - 1] = CR
                /\ breakAt(json, i - 1)
               THEN <<>>
             ELSE IF breakAt(json, i) THEN <<BS, "n">>
             ELSE <<json[i]>>],
          1, Len(json))

\* coerceSmartQuotes: typographic quotes become straight ones
coerceSmartQuotes(json) ==
  [i \in 1 .. Len(json) |->
     IF json[i] \in {"LDQUO", "RDQUO"} THEN Q
     ELSE IF json[i] \in {"LSQUO", "RSQUO"} THEN "'"
     ELSE json[i]]

\* the end of a single-quoted run that opens before position p: the first
\* single quote that no backslash escapes; 0 for none, and for a backslash
\* before a line break
RECURSIVE closingSingle(_, _)
closingSingle(json, p) ==
  IF p > Len(json) THEN 0
  ELSE IF json[p] = "'" THEN p
  ELSE IF json[p] = BS
         THEN IF p + 1 <= Len(json) /\ json[p + 1] \notin {LF, CR}
                THEN closingSingle(json, p + 2) ELSE 0
  ELSE closingSingle(json, p + 1)

\* inner.replace(/"/g, '\\"')
RECURSIVE escapeQuotes(_)
escapeQuotes(s) ==
  IF s = <<>> THEN s
  ELSE (IF s[1] = Q THEN <<BS, Q>> ELSE <<s[1]>>) \o escapeQuotes(Tail(s))

\* coerceSingleQuotes: every single-quoted run becomes a double-quoted one;
\* the text from position p on, after the runs before it
RECURSIVE singleQuotes(_, _)
singleQuotes(json, p) ==
  LET o == first({q \in p .. Len(json) :
                    json[q] = "'" /\ closingSingle(json, q + 1) # 0})
      e == closingSingle(json, o + 1)
  IN IF o = 0 THEN SubSeq(json, p, Len(json))
     ELSE SubSeq(json, p, o - 1)
          \o <<Q>> \o escapeQuotes(SubSeq(json, o + 1, e - 1)) \o <<Q>>
          \o singleQuotes(json, e + 1)

coerceSingleQuotes(json) == singleQuotes(json, 1)

\* the repairs in the order they are tried
repairOrder(k, s) ==
  CASE k = 1 -> s
    [] k = 2 -> fixNewlinesInsideJsonStrings(s)
    [] k = 3 -> coerceSmartQuotes(s)
    [] k = 4 -> coerceSingleQuotes(s)

\* the names of the result schema
KNOWN_RESULT_KEYS ==
  {<<"score">>, <<"verdict">>, <<"hardRejectionReason">>, <<"matchBullets">>,
   <<"riskBullets">>, <<"bestResumeLabel">>, <<"explanation">>,
   <<"extraInfo">>}

\* collectExtraInfo without its loop over the members of raw
existingExtraInfo(parsed) ==
  LET existing == get(parsed, <<"extraInfo">>)
  IN IF existing.t = "obj" /\ DOMAIN existing.v # {} THEN existing ELSE nullV

\* collectExtraInfo: the members of raw.extraInfo when that is an object,
\* overlaid with every member of raw whose name is not in the schema
collectExtraInfo(parsed) ==
  LET existing == get(parsed, <<"extraInfo">>)
      base == IF existing.t = "obj" THEN existing.v ELSE <<>>
      unknown == DOMAIN parsed.v \ KNOWN_RESULT_KEYS
      extra == [k \in unknown \cup DOMAIN base |->
                  IF k \in unknown THEN parsed.v[k] ELSE base[k]]
  IN IF DOMAIN extra # {} THEN obj(extra) ELSE nullV

\* Math.max(0, n): the lower bound only
clampBelow(n) == MaxOf(0, n)

\* Math.max(0, Math.min(100, n))
clamp(n) == MaxOf(0, Min(100, n))

\* the end of the pattern "((?:[^"\\]|\\.)*)" whose opening quote stands
\* before position p: the position of the closing quote, 0 for none
RECURSIVE stringEnd(_, _)
stringEnd(s, p) ==
  IF p > Len(s) THEN 0
  ELSE IF s[p] = Q THEN p
  ELSE IF s[p] = BS
         THEN IF p + 1 <= Len(s) /\ s[p + 1] \notin {LF, CR}
                THEN stringEnd(s, p + 2) ELSE 0
  ELSE stringEnd(s, p + 1)

\* s.replace(/\\n/g, '\n').replace(/\\"/g, '"')
RECURSIVE replacePair(_, _, _)
replacePair(s, c, by) ==
  IF s = <<>> THEN s
  ELSE IF Len(s) >= 2 /\ s[1] = BS /\ s[2] = c
         THEN <<by>> \o replacePair(SubSeq(s, 3, Len(s)), c, by)
  ELSE <<s[1]>> \o replacePair(Tail(s), c, by)

unescape(s) == replacePair(replacePair(s, "n", LF), Q, Q)

\* the positions where a value stands after "name" and a colon
valueStarts(s, name) ==
  {skipWs(s, skipWs(s, i + 3) + 1) :
     i \in {j \in 1 .. Len(s) - 3 :
              /\ s[j] = Q /\ s[j + 1] = name /\ s[j + 2] = Q
              /\ skipWs(s, j + 3) <= Len(s)
              /\ s[skipWs(s, j + 3)] = ":"}}

\* the strings of a bullet list from position p on, up to its closing
\* bracket
RECURSIVE bulletItems(_, _, _)
bulletItems(s, p, acc) ==
  IF p > Len(s) THEN fail
  ELSE IF s[p] = "]" THEN read(acc, p + 1)
  ELSE IF s[p] = Q /\ stringEnd(s, p + 1) # 0
         THEN LET e == stringEnd(s, p + 1)
                  c == skipWs(s, e + 1)
                  n == IF c <= Len(s) /\ s[c] = "," THEN skipWs(s, c + 1) ELSE c
              IN bulletItems(s, n,
                             Append(acc, str(unescape(SubSeq(s, p + 1, e - 1)))))
  ELSE fail

\* the bullet list written at position i, if the bullet pattern matches there
bulletsAt(s, i) ==
  LET c == skipWs(s, i + 3)
      b == IF c <= Len(s) /\ s[c] = ":" THEN skipWs(s, c + 1) ELSE 0
  IN IF s[i] = Q /\ s[i + 1] \in {"matchBullets", "riskBullets"}
        /\ s[i + 2] = Q /\ b # 0 /\ b <= Len(s) /\ s[b] = "["
       THEN bulletItems(s, skipWs(s, b + 1), <<>>) ELSE fail

\* the bullet lists the bullet pattern finds in the text from position i on
RECURSIVE bulletScan(_, _, _)
bulletScan(s, i, found) ==
  LET m == first({j \in i .. Len(s) - 2 : bulletsAt(s, j).ok})
  IN IF m = 0 THEN found
     ELSE bulletScan(s, bulletsAt(s, m).p,
                     [found EXCEPT ![s[m + 1]] = @ \o bulletsAt(s, m).v])

MAX_RAW_TEXT_LEN == 500

\* the error parseJsonFromResponse throws: 'The model returned invalid JSON.'
invalidJson == [t |-> "error", v |-> <<"invalid JSON">>]

\* a last resort that finds nothing
extractNothing(s) == nullV

\* extractResultFromBrokenJson: the fields the patterns find in the text
extractResultFromBrokenJson(s) ==
  LET scoreMatch == first({p \in valueStarts(s, "score") :
                             p <= Len(s) /\ s[p] \in DOMAIN Numerals})
      verdictMatch == first({p \in valueStarts(s, "verdict") :
                               /\ p + 2 <= Len(s) /\ s[p] = Q /\ s[p + 2] = Q
                               /\ s[p + 1] \in {"worth", "maybe", "not_worth"}})
      quoted(name) == first({p \in valueStarts(s, name) :
                               p <= Len(s) /\ s[p] = Q
                               /\ stringEnd(s, p + 1) # 0})
      explanationMatch == quoted("explanation")
      \* "([^"]*)"|null and "((?:[^"\\]|\\.)*)"|null
      bestMatch == first({p \in valueStarts(s, "bestResumeLabel") :
                            p <= Len(s)
                            /\ \/ s[p] = Q /\ indexOf(s, Q, p + 1) # 0
                               \/ s[p] = "null"})
      hardMatch == first({p \in valueStarts(s, "hardRejectionReason") :
                            p <= Len(s)
                            /\ \/ s[p] = Q /\ stringEnd(s, p + 1) # 0
                               \/ s[p] = "null"})
      bullets == bulletScan(s, 1, [k \in {"matchBullets", "riskBullets"} |-> <<>>])
  IN obj(members(<<
       <<<<"score">>,
         num(IF scoreMatch # 0 THEN clamp(Numerals[s[scoreMatch]]) ELSE 50)>>,
       <<<<"verdict">>,
         str(<<IF verdictMatch # 0 THEN s[verdictMatch + 1] ELSE "maybe">>)>>,
       <<<<"hardRejectionReason">>,
         IF hardMatch # 0 /\ s[hardMatch] = Q
           THEN str(SubSeq(s, hardMatch + 1, stringEnd(s, hardMatch + 1) - 1))
           ELSE nullV>>,
       <<<<"matchBullets">>, arr(bullets["matchBullets"])>>,
       <<<<"riskBullets">>, arr(bullets["riskBullets"])>>,
       <<<<"bestResumeLabel">>,
         IF bestMatch # 0 /\ s[bestMatch] = Q
           THEN str(SubSeq(s, bestMatch + 1, indexOf(s, Q, bestMatch + 1) - 1))
           ELSE nullV>>,
       <<<<"explanation">>,
         str(IF explanationMatch # 0
               THEN unescape(SubSeq(s, explanationMatch + 1,
                                    stringEnd(s, explanationMatch + 1) - 1))
               ELSE <<>>)>>,
       <<<<"extraInfo">>,
         IF s # <<>>
           THEN obj(members(<< <<<<"rawText">>,
                  str(IF Len(s) > MAX_RAW_TEXT_LEN
                        THEN Append(SubSeq(s, 1, MAX_RAW_TEXT_LEN), "...")
                        ELSE s)>> >>))
           ELSE nullV>> >>))

\* whether JSON.parse of the k-th repair of the cleaned text gives an object
\* with a verdict
accepted(k, cleaned) ==
  LET parsed == JSONparse(repairOrder(k, cleaned))
  IN parsed.ok /\ parsed.v.t = "obj" /\ <<"verdict">> \in DOMAIN parsed.v.v

\* the tail of parseJsonFromResponse, from the repairs on
parseCleaned(cleaned) ==
  IF \E k \in 1 .. 4 : accepted(k, cleaned)
    THEN LET k == first({j \in 1 .. 4 : accepted(j, cleaned)})
             parsed == JSONparse(repairOrder(k, cleaned)).v
             extraInfo == collectExtraInfo(parsed)
         IN IF extraInfo.t # "null"
              THEN obj((<<"extraInfo">> :> extraInfo) @@ parsed.v)
              ELSE parsed
    ELSE LET fallback == extractResultFromBrokenJson(cleaned)
         IN IF fallback.t # "null" THEN fallback ELSE invalidJson

parseJsonFromResponse(s) == parseCleaned(clean(s))

\* the verdict of normalizeResult, were every string let through
anyVerdict(v) == IF v.t = "str" THEN v ELSE str(<<"maybe">>)

\* the verdict of normalizeResult: raw.verdict when it is one of the three
\* values, 'maybe' otherwise
verdictOf(v) ==
  IF v.t = "str" /\ v.v \in {<<"worth">>, <<"maybe">>, <<"not_worth">>}
    THEN v ELSE str(<<"maybe">>)

\* normalizeResult
normalizeResult(r) ==
  LET orNull(v) == IF v.t \in {"undefined", "null"} THEN nullV ELSE v
      array(v) == IF v.t = "arr" THEN v ELSE arr(<<>>)
      score == get(r, <<"score">>)
      explanation == get(r, <<"explanation">>)
  IN [score |-> IF score.t = "num" THEN num(clamp(score.v)) ELSE num(50),
      verdict |-> verdictOf(get(r, <<"verdict">>)),
      hardRejectionReason |-> orNull(get(r, <<"hardRejectionReason">>)),
      matchBullets |-> array(get(r, <<"matchBullets">>)),
      riskBullets |-> array(get(r, <<"riskBullets">>)),
      bestResumeLabel |-> orNull(get(r, <<"bestResumeLabel">>)),
      explanation |-> IF explanation.t = "str" THEN explanation ELSE str(<<>>),
      extraInfo |-> orNull(get(r, <<"extraInfo">>))]

\* ---- the replies the parser is run on ----

MaxStr == 3

\* the characters of the string values of a reply
StringChars == {"a", ",", "]", "}", LF, CR}

RECURSIVE Strings(_)
Strings(n) ==
  IF n = 0 THEN {<<>>}
  ELSE LET shorter == Strings(n - 1)
       IN shorter \cup {Append(s, c) : s \in shorter, c \in StringChars}

\* how a reply is written: inside a code fence, with a comma before every
\* closing bracket, with the line breaks of its strings left as they are,
\* or with other quotation marks, or after a word of prose
Styles ==
  SUBSET {"fence", "comma", "newline"}
    \cup {{"smart"}, {"single"}, {"prose"}, {"fence", "bare"}}

\* an object as it is written: its members in their order
object(ms) == [t |-> "members", v |-> ms]

\* the values a model may give for the score, the verdict, and beside them
ScoreValues ==
  <<undefinedV, num(0 - 5), num(0), num(85), num(150), str(<<"85">>), nullV>>
VerdictValues ==
  <<undefinedV, str(<<"worth">>), str(<<"maybe">>), str(<<"not_worth">>),
    str(<<"great">>), nullV, num(5)>>
ExtraMembers ==
  << <<>>,
     << <<<<"confidence">>, num(5)>> >>,
     << <<<<"extraInfo">>, object(<< <<<<"note">>, num(5)>> >>)>> >>,
     << <<<<"extraInfo">>, object(<< <<<<"note">>, num(5)>> >>)>>,
        <<<<"note">>, num(85)>>, <<<<"confidence">>, num(5)>> >>,
     << <<<<"extraInfo">>, str(<<"a">>)>> >>,
     << <<<<"extraInfo">>, str(<<"a">>)>>, <<<<"confidence">>, num(5)>> >> >>
BulletMembers ==
  << <<<<"matchBullets">>, arr(<<str(<<"a">>), str(<<"a", LF>>)>>)>>,
     <<<<"riskBullets">>, arr(<<>>)>> >>

\* the members of a reply object: those with a value, in the order written
present(ms) == SelectSeq(ms, LAMBDA m : m[2].t # "undefined")

\* JSON.stringify as a model writes it: the text of a value in a style
numeral(n) == CHOOSE d \in DOMAIN Numerals : Numerals[d] = n

RECURSIVE escaped(_, _)
escaped(s, style) ==
  IF s = <<>> THEN s
  ELSE (CASE s[1] = Q -> <<BS, Q>>
          [] s[1] = BS -> <<BS, BS>>
          [] s[1] = LF /\ "newline" \notin style -> <<BS, "n">>
          [] s[1] = CR /\ "newline" \notin style -> <<BS, "r">>
          [] OTHER -> <<s[1]>>) \o escaped(Tail(s), style)

quoted(s, style) ==
  CASE "smart" \in style -> <<"LDQUO">> \o escaped(s, style) \o <<"RDQUO">>
    [] "single" \in style -> <<"'">> \o escaped(s, style) \o <<"'">>
    [] OTHER -> <<Q>> \o escaped(s, style) \o <<Q>>

closing(c, style) == IF "comma" \in style THEN <<",", c>> ELSE <<c>>

RECURSIVE write(_, _)
RECURSIVE writeAll(_, _, _)
write(v, style) ==
  CASE v.t = "null" -> <<"null">>
    [] v.t = "num" -> IF v.v < 0 THEN <<"-", numeral(0 - v.v)>>
                                 ELSE <<numeral(v.v)>>
    [] v.t = "str" -> quoted(v.v, style)
    [] v.t = "arr" ->
         IF v.v = <<>> THEN <<"[", "]">>
         ELSE <<"[">> \o writeAll(v.v, FALSE, style) \o closing("]", style)
    [] v.t = "members" ->
         IF v.v = <<>> THEN <<"{", "}">>
         ELSE <<"{">> \o writeAll(v.v, TRUE, style) \o closing("}", style)

\* the elements of an array, or the members of an object, between commas
writeAll(vs, named, style) ==
  LET one == IF named
               THEN quoted(vs[1][1], style) \o <<":">> \o write(vs[1][2], style)
               ELSE write(vs[1], style)
  IN IF Len(vs) = 1 THEN one
     ELSE one \o <<",">> \o writeAll(Tail(vs), named, style)

\* the reply text: the object, and what the style puts around it
render(ms, style) ==
  LET json == write(object(present(ms)), style)
  IN CASE "bare" \in style -> <<FENCE, LF>> \o json \o <<LF, FENCE>>
       [] "fence" \in style -> <<FENCE, "json", LF>> \o json \o <<LF, FENCE, LF>>
       [] "prose" \in style -> <<"a", SP>> \o json \o <<SP, "a">>
       [] OTHER -> json

\* a reply: its members, how it is written, and the text
replyOf(ms, style) == [members |-> ms, style |-> style]

\* replies that differ in score, verdict and further members
FieldReplies ==
  {replyOf(<< <<<<"score">>, ScoreValues[i]>>,
              <<<<"verdict">>, VerdictValues[j]>>,
              <<<<"explanation">>, str(<<"a">>)>> >> \o ExtraMembers[k],
           style) :
     i \in DOMAIN ScoreValues, j \in DOMAIN VerdictValues,
     k \in DOMAIN ExtraMembers, style \in {{}, {"fence"}}}

\* well-formed result objects that differ in their strings and in how they
\* are written
StringReplies ==
  {replyOf(<< <<<<"score">>, num(85)>>,
              <<<<"verdict">>, str(<<"worth">>)>> >> \o BulletMembers
           \o << <<<<"explanation">>, str(s)>> >>,
           style) :
     s \in Strings(MaxStr), style \in Styles}

Replies == FieldReplies \cup StringReplies

ReplyInit ==
  /\ SchedulerLoaded
  /\ settings = CHOOSE s \in SettingsChoices : TRUE
  /\ reply \in Replies
  /\ text = render(reply.members, reply.style)
  /\ raw = <<>>
  /\ result = <<>>
  /\ stage = "received"
  /\ TransportIdle
  /\ ResumesEmpty
  /\ CacheEmpty
  /\ UiClosed

\* the state of the service worker
worker == <<pendingQueue, inFlight, lastProviderIndex, settings, starters,
            run, submitted, hist, outside, multi, resolved, messaging>>

\* what the library code leaves alone
scheduler == <<worker, panel>>

\* parseJsonFromResponse up to the repairs: trim, code fence, object, commas
Clean ==
  /\ stage = "received"
  /\ text' = clean(text)
  /\ stage' = "cleaned"
  /\ UNCHANGED <<scheduler, transport, resumeStore, resultCache, ui, reply, raw, result>>

\* parseJsonFromResponse from the repairs on
Parse ==
  /\ stage = "cleaned"
  /\ raw' = parseCleaned(text)
  /\ stage' = "parsed"
  /\ UNCHANGED <<scheduler, transport, resumeStore, resultCache, ui, reply, text, result>>

\* evaluateJob returns normalizeResult(raw), or the error thrown by the parser
Normalize ==
  /\ stage = "parsed"
  /\ result' = IF raw = invalidJson THEN raw ELSE normalizeResult(raw)
  /\ stage' = "normalized"
  /\ UNCHANGED <<scheduler, transport, resumeStore, resultCache, ui, reply, text, raw>>

\* ---- the responses of the providers ----

\* the responses a provider may give: a status with or without a body, or
\* no status at all (an opaque response, a network error response)
Statuses == {200, 401, 403, 429, 500}
statusText(status) ==
  CASE status = 401 -> "Unauthorized"
    [] status = 403 -> "Forbidden"
    [] status = 429 -> "Too Many Requests"
    [] status = 500 -> "Internal Server Error"
    [] OTHER -> ""
Responses ==
  [status : Statuses, type : {"basic", "cors"}, text : {"", "access denied"}]
    \cup [status : {0}, type : {"opaque", "error"}, text : {""}]

\* res.ok
resOk(res) == res.status >= 200 /\ res.status <= 299

\* res.status === 401 ? 'Invalid API key.' : res.status === 429 ?
\* 'Rate limited.' : t || res.statusText
statusMessage(res) ==
  IF res.status = 401 THEN "Invalid API key."
  ELSE IF res.status = 429 THEN "Rate limited."
  ELSE IF res.text # "" THEN res.text ELSE statusText(res.status)

\* what evaluateJob throws for a response that is not ok
responseError(provider, res) ==
  CASE provider = "anthropic" -> statusMessage(res)
    [] provider = "google" -> statusMessage(res)
    [] provider = "ollama" /\ (res.status = 0 \/ res.type = "opaque") ->
         "Could not reach Ollama. Is it running?"
    [] provider = "ollama" /\ res.status \in {401, 403} ->
         "Ollama rejected the request (CORS)."
    [] OTHER -> statusMessage(res)

HttpInit ==
  /\ SchedulerLoaded
  /\ settings = CHOOSE s \in SettingsChoices : TRUE
  /\ ParserIdle
  /\ ResumesEmpty
  /\ CacheEmpty
  /\ UiClosed
  /\ http \in [provider : Providers, res : Responses]
  /\ thrown = "pending"

\* evaluateJob after fetch has resolved: an ok response goes on to the
\* parser, any other is thrown as an error
Respond ==
  /\ thrown = "pending"
  /\ thrown' = IF resOk(http.res) THEN "none"
                ELSE responseError(http.provider, http.res)
  /\ UNCHANGED <<scheduler, parser, resumeStore, resultCache, ui, http>>

\* ---- the resume store of db.ts ----

\* getAllResumes: the records of the store in the order of their createdAt,
\* records of one createdAt in the order of their keys
RECURSIVE getAllResumes(_)
getAllResumes(s) ==
  IF s = {} THEN <<>>
  ELSE LET r == CHOOSE x \in s : \A y \in s :
                  \/ x.createdAt < y.createdAt
                  \/ x.createdAt = y.createdAt /\ x.id <= y.id
       IN <<r>> \o getAllResumes(s \ {r})

\* addResume is called for a new record and waits for getAllResumes
AddResume(id) ==
  /\ adds[id].pc = "idle"
  /\ \A j \in ResumeIds : j < id => adds[j].pc # "idle"
  /\ Cardinality({j \in ResumeIds : adds[j].pc \in {"reading", "adding"}}) < MaxOverlap
  /\ adds' = [adds EXCEPT ![id].pc = "reading"]
  /\ UNCHANGED <<scheduler, parser, transport, resultCache, ui, store, clock, sent>>

\* getAllResumes has resolved: addResume throws when the store is full,
\* else it stamps the record and waits for openDB and the add request
AddResumeChecks(id) ==
  /\ adds[id].pc = "reading"
  /\ IF Len(getAllResumes(store)) >= MAX_RESUMES
       THEN adds' = [adds EXCEPT ![id].pc = "rejected"] /\ UNCHANGED clock
       ELSE /\ clock' = clock + 1
            /\ adds' = [adds EXCEPT ![id] = [pc |-> "adding", createdAt |-> clock']]
  /\ UNCHANGED <<scheduler, parser, transport, resultCache, ui, store, sent>>

\* the add request succeeds: the record is in the store
AddResumeStores(id) ==
  /\ adds[id].pc = "adding"
  /\ adds' = [adds EXCEPT ![id].pc = "done"]
  /\ store' = store \cup {[id |-> id, createdAt |-> adds[id].createdAt]}
  /\ UNCHANGED <<scheduler, parser, transport, resultCache, ui, clock, sent>>

\* deleteResume
DeleteResume(id) ==
  /\ \E r \in store : r.id = id
  /\ store' = {r \in store : r.id # id}
  /\ UNCHANGED <<scheduler, parser, transport, resultCache, ui, adds, clock, sent>>

\* ---- the resumes evaluateJob gets (runEvalTask) ----

\* no resume is selected whoever the provider is
selectResumesAnyProvider(provider, resumes, resumeIds) ==
  IF resumeIds.defined /\ Len(resumeIds.ids) > 0
    THEN LET idSet == {resumeIds.ids[i] : i \in 1 .. Len(resumeIds.ids)}
             has(r) == r.id \in idSet
         IN SelectSeq(resumes, has)
    ELSE <<>>

\* the resumes of a task: none for ollama, else those of task.resumeIds
selectResumes(provider, resumes, resumeIds) ==
  IF provider = "ollama" THEN <<>>
  ELSE IF resumeIds.defined /\ Len(resumeIds.ids) > 0
    THEN LET idSet == {resumeIds.ids[i] : i \in 1 .. Len(resumeIds.ids)}
             has(r) == r.id \in idSet
         IN SelectSeq(resumes, has)
    ELSE <<>>

\* the stores of up to MaxStored resumes
Stores ==
  {s \in SUBSET [id : 1 .. MaxStored, createdAt : 1 .. MaxStored] :
     \A x \in s : \A y \in s : x.id = y.id => x = y}

\* task.resumeIds: undefined, or up to two ids, stored or not
ResumeIdChoices ==
  {[defined |-> FALSE, ids |-> <<>>]}
    \cup {[defined |-> TRUE, ids |-> ids] :
            ids \in {<<>>} \cup {<<i>> : i \in 1 .. MaxStored + 1}
                      \cup {<<i, j>> : i \in 1 .. MaxStored + 1, j \in 1 .. MaxStored + 1}}

\* a task has been assigned its provider, with some resumes in the store
SelectInit ==
  /\ SchedulerLoaded
  /\ settings = CHOOSE s \in SettingsChoices : TRUE
  /\ ParserIdle
  /\ TransportIdle
  /\ CacheEmpty
  /\ UiClosed
  /\ store \in Stores
  /\ adds = [id \in ResumeIds |->
               IF \E r \in store : r.id = id
                 THEN [pc |-> "done", createdAt |-> (CHOOSE r \in store : r.id = id).createdAt]
                 ELSE [pc |-> "idle", createdAt |-> 0]]
  /\ clock = MaxStored
  /\ sent \in [provider : Providers, resumeIds : ResumeIdChoices,
               resumes : {<<>>}, pc : {"assigned"}]

\* runEvalTask reads the store and resolves the resumes of the task
SelectResumes ==
  /\ sent # <<>>
  /\ sent.pc = "assigned"
  /\ sent' = [sent EXCEPT
       !.resumes = selectResumes(sent.provider, getAllResumes(store), sent.resumeIds),
       !.pc = "selected"]
  /\ UNCHANGED <<scheduler, parser, transport, resultCache, ui, store, adds, clock>>

\* ---- the result cache of db.ts ----

\* getJobEvaluation: the record of jobId, or null
getJobEvaluation(c, jobId) == IF jobId \in DOMAIN c THEN c[jobId] ELSE nullV

\* the store after an add that leaves an existing record of the key alone
putNew(c, jobId, record) ==
  [j \in DOMAIN c \cup {jobId} |-> IF j \in DOMAIN c THEN c[j] ELSE record]

\* the store after put(record): the record of its key is replaced
put(c, jobId, record) ==
  [j \in DOMAIN c \cup {jobId} |-> IF j = jobId THEN record ELSE c[j]]

\* the last key of the evaluatedAt index
newest(c) ==
  LET most == CHOOSE t \in {c[j].evaluatedAt : j \in DOMAIN c} :
                \A j \in DOMAIN c : t >= c[j].evaluatedAt
  IN CHOOSE j \in DOMAIN c :
       /\ c[j].evaluatedAt = most
       /\ \A i \in DOMAIN c : c[i].evaluatedAt = most => j >= i

\* the first key of the evaluatedAt index: the oldest record, the least
\* key among those of one evaluatedAt
oldest(c) ==
  LET least == CHOOSE t \in {c[j].evaluatedAt : j \in DOMAIN c} :
                 \A j \in DOMAIN c : t <= c[j].evaluatedAt
  IN CHOOSE j \in DOMAIN c :
       /\ c[j].evaluatedAt = least
       /\ \A i \in DOMAIN c : c[i].evaluatedAt = least => j <= i

\* the cursor of trimJobEvaluations deletes toDelete records, oldest first
RECURSIVE deleteOldest(_, _)
deleteOldest(c, toDelete) ==
  IF toDelete = 0 \/ DOMAIN c = {} THEN c
  ELSE deleteOldest([j \in DOMAIN c \ {oldest(c)} |-> c[j]], toDelete - 1)

\* trimJobEvaluations
trimJobEvaluations(c) ==
  LET count == Cardinality(DOMAIN c)
  IN IF count <= MAX_JOB_EVALS THEN c
     ELSE deleteOldest(c, count - MAX_JOB_EVALS)

\* saveJobEvaluation at the time now
saveJobEvaluation(c, jobId, r, now) ==
  trimJobEvaluations(
    put(c, jobId, [jobId |-> jobId, score |-> r.score, evaluatedAt |-> now, result |-> r]))

\* the results saved: two that differ in score and verdict
EvaluationResults ==
  {[score |-> 85, verdict |-> "worth"], [score |-> 20, verdict |-> "not_worth"]}

\* a cache of n records saved one after the other
filled(n) ==
  [j \in 1 .. n |->
     [jobId |-> j, score |-> 85, evaluatedAt |-> j,
      result |-> [score |-> 85, verdict |-> "worth"]]]

\* the sizes of the cache at the start: empty, one below the cap, full
CacheSizes == {0, MAX_JOB_EVALS - 1, MAX_JOB_EVALS}

\* the jobs saved and read: the one cached longest, and new ones
JobIds == {1, MAX_JOB_EVALS + 1, MAX_JOB_EVALS + 2}

\* the service worker has saved some results before
CacheInit ==
  /\ SchedulerLoaded
  /\ settings = CHOOSE s \in SettingsChoices : TRUE
  /\ ParserIdle
  /\ TransportIdle
  /\ store = {}
  /\ adds = [id \in ResumeIds |-> [pc |-> "idle", createdAt |-> 0]]
  /\ sent = <<>>
  /\ jobEvaluations \in {filled(n) : n \in CacheSizes}
  /\ clock = MAX_JOB_EVALS
  /\ saved = <<>>
  /\ readBack = <<>>
  /\ UiClosed

\* saveJobEvaluation(jobId, result): Date.now() does not go back
SaveJobEvaluation(jobId, r) ==
  /\ (IF saved = <<>> THEN 0 ELSE saved.n) < MaxSaves
  /\ \E now \in {clock, clock + 1} :
       /\ clock' = now
       /\ jobEvaluations' = saveJobEvaluation(jobEvaluations, jobId, r, now)
  /\ saved' = [jobId |-> jobId, result |-> r, trimmed |-> TRUE,
               n |-> (IF saved = <<>> THEN 0 ELSE saved.n) + 1]
  /\ readBack' = <<>>
  /\ UNCHANGED <<scheduler, parser, transport, ui, store, adds, sent>>

\* saveJobEvaluation(jobId, result) whose trimJobEvaluations rejects (its
\* count or its cursor fails): `catch { /* ignore cleanup errors */ }`, the
\* save resolves with the record put and nothing deleted
SaveTrimFails(jobId, r) ==
  /\ (IF saved = <<>> THEN 0 ELSE saved.n) < MaxSaves
  /\ \E now \in {clock, clock + 1} :
       /\ clock' = now
       /\ jobEvaluations' =
            put(jobEvaluations, jobId,
                [jobId |-> jobId, score |-> r.score, evaluatedAt |-> now,
                 result |-> r])
  /\ saved' = [jobId |-> jobId, result |-> r, trimmed |-> FALSE,
               n |-> (IF saved = <<>> THEN 0 ELSE saved.n) + 1]
  /\ readBack' = <<>>
  /\ UNCHANGED <<scheduler, parser, transport, ui, store, adds, sent>>

\* getJobEvaluation(jobId)
GetJobEvaluation(jobId) ==
  /\ readBack = <<>>
  /\ readBack' = [jobId |-> jobId, value |-> getJobEvaluation(jobEvaluations, jobId)]
  /\ UNCHANGED <<scheduler, parser, transport, ui, store, adds, clock, sent, jobEvaluations, saved>>

\* ---- runEvaluation of the popup and the side panel ----

\* the result shown for a cached record: its result, or for a record that
\* holds only a score, a placeholder with that score
cachedResult(cached) ==
  IF cached.result = undefinedV
    THEN [score |-> cached.score, verdict |-> "maybe"]
    ELSE cached.result

\* runEvaluation never takes the cached branch
neverShortCircuits(cached) == FALSE

\* if (cached): the record read from the cache is used
shortCircuits(cached) == cached # nullV

\* a record that holds only a score
scoreOnly(jobId) ==
  [jobId |-> jobId, score |-> 85, evaluatedAt |-> 1, result |-> undefinedV]

\* the cache as runEvaluation may find it: no record of job 1, one saved
\* with its result, or one holding only a score
SmallCaches == {<<>>, filled(1), [j \in {1} |-> scoreOnly(j)]}

\* the jobs of the pages the user opens: one that may be cached, one new
UiJobIds == {1, MAX_JOB_EVALS + 1}

\* the popup (popup.ts) or the side panel (ResumesPanel.tsx) is open
UiInit ==
  /\ SchedulerLoaded
  /\ settings = CHOOSE s \in SettingsChoices : TRUE
  /\ ParserIdle
  /\ TransportIdle
  /\ store = {}
  /\ adds = [id \in ResumeIds |-> [pc |-> "idle", createdAt |-> 0]]
  /\ sent = <<>>
  /\ jobEvaluations \in SmallCaches
  /\ clock = 1
  /\ saved = <<>>
  /\ readBack = <<>>
  /\ panel = <<>>
  /\ ui \in [surface : {"popup", "panel"}, pc : {"idle"}, cacheKey : {0},
             cached : {nullV}, processing : {{}}, runs : {<<>>}, messages : {<<>>}]

\* the end of a run: what it read from the cache, showed and sent
ended(cached, shown, didSubmit) ==
  [ui EXCEPT !.pc = "idle",
             !.runs = @ \o <<[cacheKey |-> ui.cacheKey, cached |-> cached,
                              shown |-> shown, submitted |-> didSubmit]>>]

\* runEvaluation is called and waits for chrome.tabs.query
RunEvaluation ==
  /\ ui # <<>>
  /\ ui.pc = "idle"
  /\ Len(ui.runs) < MaxRuns
  /\ ui' = [ui EXCEPT !.pc = "tab", !.cacheKey = 0, !.cached = nullV]
  /\ UNCHANGED <<scheduler, parser, transport, resumeStore, resultCache>>

\* the active tab: a job page (the content script is asked for the job) or not
TabQueried(jobPage) ==
  /\ ui # <<>>
  /\ ui.pc = "tab"
  /\ ui' = IF jobPage THEN [ui EXCEPT !.pc = "job"]
           ELSE ended(nullV, nullV, FALSE)
  /\ UNCHANGED <<scheduler, parser, transport, resumeStore, resultCache>>

\* GET_JOB_DATA fails, or gives the job, whose cache key is looked up
JobRead(ok, key) ==
  /\ ui # <<>>
  /\ ui.pc = "job"
  /\ ui' = IF ok THEN [ui EXCEPT !.pc = "cache", !.cacheKey = key]
           ELSE ended(nullV, nullV, FALSE)
  /\ UNCHANGED <<scheduler, parser, transport, resumeStore, resultCache>>

\* getJobEvaluation(cacheKey) has resolved: the cached result is shown, or
\* the popup finds the job in its processing list, or EVALUATE_JOB is sent
CacheChecked ==
  /\ ui # <<>>
  /\ ui.pc = "cache"
  /\ LET cached == getJobEvaluation(jobEvaluations, ui.cacheKey)
     IN ui' =
          IF shortCircuits(cached) THEN ended(cached, cachedResult(cached), FALSE)
          ELSE IF ui.surface = "popup" /\ ui.cacheKey \in ui.processing
            THEN ended(cached, nullV, FALSE)
          ELSE [ui EXCEPT !.pc = "reply",
                          !.cached = cached,
                          !.messages = @ \o <<[type |-> "EVALUATE_JOB",
                                               cacheKey |-> ui.cacheKey,
                                               run |-> Len(ui.runs) + 1]>>]
  /\ UNCHANGED <<scheduler, parser, transport, resumeStore, resultCache>>

\* the service worker answers with an error or with { pending: true }
Answered(pending) ==
  /\ ui # <<>>
  /\ ui.pc = "reply"
  /\ ui' = [ended(ui.cached, nullV, TRUE) EXCEPT
              !.processing = IF pending THEN @ \cup {ui.cacheKey} ELSE @]
  /\ UNCHANGED <<scheduler, parser, transport, resumeStore, resultCache>>

\* the service worker answers with the result: it is shown and saved
AnsweredResult(r) ==
  /\ ui # <<>>
  /\ ui.pc = "reply"
  /\ ui' = ended(ui.cached, r, TRUE)
  /\ clock' = clock + 1
  /\ jobEvaluations' = saveJobEvaluation(jobEvaluations, ui.cacheKey, r, clock')
  /\ UNCHANGED <<scheduler, parser, transport, store, adds, sent, saved, readBack>>

\* ---- the side panel's display and its EVALUATION_COMPLETE listener ----

\* the state of useEvaluation before anything is shown (cacheKey 0: null)
noDisplay == [cacheKey |-> 0, loading |-> FALSE, error |-> "null", result |-> nullV]

\* the side panel is open and shows nothing yet
PanelInit ==
  /\ SchedulerLoaded
  /\ settings = CHOOSE s \in SettingsChoices : TRUE
  /\ ParserIdle
  /\ TransportIdle
  /\ ResumesEmpty
  /\ CacheEmpty
  /\ ui = <<>>
  /\ panel = [state |-> noDisplay, processingJobs |-> <<>>, running |-> 0,
              runs |-> 0, removals |-> {}, last |-> <<>>, received |-> 0]

\* runEvaluation is called: setState loading, then its awaits
PanelRunEvaluation ==
  /\ panel.runs < MaxRuns
  /\ panel' = [panel EXCEPT !.runs = @ + 1, !.running = @ + 1,
                            !.state.loading = TRUE, !.state.error = "null"]
  /\ UNCHANGED <<worker, parser, transport, resumeStore, resultCache, ui>>

\* the entry runEvaluation puts first in the processing list
pendingEntry == [status |-> "pending", score |-> 0, retryCount |-> 0,
                 lastError |-> "null"]

\* a runEvaluation ends: no job could be read, the cached result is shown,
\* the service worker answered with an error, with { pending: true } or
\* with the result
PanelRunEnds(outcome, key, r) ==
  /\ panel.running > 0
  /\ LET shown ==
           CASE outcome = "no job" ->
                  [cacheKey |-> 0, loading |-> FALSE, error |-> "no job",
                   result |-> nullV]
             [] outcome = "error" ->
                  [cacheKey |-> key, loading |-> FALSE, error |-> "provider error",
                   result |-> nullV]
             [] outcome = "pending" ->
                  [panel.state EXCEPT !.cacheKey = key, !.loading = TRUE,
                                      !.error = "null"]
             [] OTHER -> \* "cached", "result"
                  [cacheKey |-> key, loading |-> FALSE, error |-> "null",
                   result |-> r]
         jobs == IF outcome = "pending"
                   THEN (key :> pendingEntry) @@ panel.processingJobs
                   ELSE panel.processingJobs
     IN panel' = [panel EXCEPT !.running = @ - 1, !.state = shown,
                               !.processingJobs = jobs]
  /\ UNCHANGED <<worker, parser, transport, resumeStore, resultCache, ui>>

\* the EVALUATION_COMPLETE messages: a result, an error, or neither
Messages ==
  {m \in [cacheKey : UiJobIds,
          error : {"null", "Rate limited.", "provider error"},
          result : {nullV} \cup EvaluationResults] :
     m.error = "null" \/ m.result = nullV}

\* a listener that shows every completion
displaysAny(s, key) == TRUE

\* `if (s.cacheKey !== cacheKey) return s`: the completion is of the job shown
displays(s, key) == s.cacheKey = key

\* the updater given to setProcessingJobs by the listener
completedJobs(prev, msg) ==
  LET key == msg.cacheKey
      isRateLimited == msg.error = "Rate limited."
  IN IF key \notin DOMAIN prev THEN prev
     ELSE IF isRateLimited
       THEN [prev EXCEPT ![key] = [@ EXCEPT !.status = "rate_limited", !.score = 0,
                                            !.retryCount = Min(@ + 1, MaxMessages),
                                            !.lastError = msg.error]]
     ELSE IF msg.error # "null"
       THEN [prev EXCEPT ![key] = [@ EXCEPT !.status = "pending", !.score = 0,
                                            !.retryCount = Min(@ + 1, MaxMessages),
                                            !.lastError = msg.error]]
     ELSE IF msg.result # nullV
       THEN [prev EXCEPT ![key] = [@ EXCEPT !.status = "done",
                                            !.score = msg.result.score]]
     ELSE prev

\* the updater given to setState by the listener
completedState(s, msg) ==
  IF ~displays(s, msg.cacheKey) THEN s
  ELSE IF msg.error # "null"
    THEN [s EXCEPT !.loading = FALSE, !.error = msg.error, !.result = nullV]
  ELSE IF msg.result # nullV
    THEN [s EXCEPT !.loading = FALSE, !.result = msg.result, !.error = "null"]
  ELSE s

\* the listener of the side panel receives EVALUATION_COMPLETE
EvaluationComplete(msg) ==
  /\ panel.received < MaxMessages
  /\ panel' =
       [panel EXCEPT
          !.received = @ + 1,
          !.last = msg,
          !.processingJobs = completedJobs(@, msg),
          !.state = completedState(@, msg),
          !.removals =
            IF /\ msg.cacheKey \in DOMAIN panel.processingJobs
               /\ msg.error = "null" /\ msg.result # nullV
               /\ msg.result.score < HIGH_SCORE_KEEP
              THEN @ \cup {msg.cacheKey} ELSE @]
  /\ UNCHANGED <<worker, parser, transport, resumeStore, resultCache, ui>>

\* REMOVE_DONE_MS after a low score: the entry leaves the processing list
RemoveDone(key) ==
  /\ key \in panel.removals
  /\ panel' = [panel EXCEPT
                 !.removals = @ \ {key},
                 !.processingJobs = [k \in DOMAIN @ \ {key} |-> @[k]]]
  /\ UNCHANGED <<worker, parser, transport, resumeStore, resultCache, ui>>

\* ---- the configured providers of both schedulers ----

\* the sequences of up to n different elements of S
RECURSIVE Arrangements(_, _)
Arrangements(S, n) ==
  IF n = 0 THEN {<<>>}
  ELSE LET shorter == Arrangements(S, n - 1)
           longer == {Append(a, p) : a \in shorter, p \in S}
       IN shorter \cup
            {a \in longer : \A i \in 1 .. Len(a) - 1 : a[i] # a[Len(a)]}

\* the settings a user can have saved: keys for some of the hosted
\* providers, an active subset of up to MaxActive providers or none
ConfigSettings ==
  [apiKeys : SUBSET {"openai", "anthropic", "groq"},
   activeProviders : Arrangements({"ollama", "openai", "groq"}, MaxActive),
   apiProvider : {"ollama", "anthropic"}]

\* the service worker has loaded, with some settings stored
ConfigInit ==
  /\ SchedulerLoaded
  /\ LibIdle
  /\ settings \in ConfigSettings

\* tryStartNext resolves the configured providers from the settings read
Resolve ==
  /\ resolved = <<>>
  /\ resolved' = [single |-> getConfiguredProviders(settings),
                  multi |-> getConfiguredProvidersMulti(settings)]
  /\ UNCHANGED <<libs, messaging, pendingQueue, inFlight, lastProviderIndex, settings,
                 starters, run, submitted, hist, outside, multi>>

(* ---------- specifications ---------- *)

\* The queue and the rotation, with providers that settle before any timer
\* and never answer 'Rate limited.', and a database that may fail
Next ==
  \/ Submit(MaxTasks)
  \/ TryStartNext
  \/ TryStartNextFails
  \/ \E t \in Tasks : ReadFails(t)
  \/ \E t \in Tasks : StartCall(t)
  \/ \E t \in Tasks : ProviderOk(t)
  \/ \E t \in Tasks : CachePut(t)
  \/ \E t \in Tasks : SaveFailed(t)
  \/ \E t \in Tasks : SaveDone(t)
  \/ \E t \in Tasks : ProviderError(t)
  \/ SaveSettings

Spec == Init /\ [][Next]_vars

\* The attempts of a task in time, with providers that may answer anything at
\* any time and a database that may fail the reads and the save of an
\* attempt, under settings that stay as they are
RetryNext ==
  \/ Submit(MaxRetryTasks)
  \/ TryStartNext
  \/ \E t \in Tasks : ReadFails(t)
  \/ \E t \in Tasks : StartCall(t)
  \/ \E t \in Tasks : ProviderOk(t)
  \/ \E t \in Tasks : CachePut(t)
  \/ \E t \in Tasks : SaveFailed(t)
  \/ \E t \in Tasks : SaveDone(t)
  \/ \E t \in Tasks : ProviderError(t)
  \/ \E t \in Tasks : ProviderRateLimited(t)
  \/ \E t \in Tasks : RetryFire(t)
  \/ \E t \in Tasks : DeadlineTimer(t)
  \/ \E t \in Tasks : OrphanSettles(t)
  \/ Tick

RetrySpec == Init /\ [][RetryNext]_vars

\* The attempts while the popup, the side panel and the tab of the job open
\* and close, under settings that stay as they are and providers that never
\* answer 'Rate limited.'
DeliveryNext ==
  \/ Submit(MaxDeliveryTasks)
  \/ TryStartNext
  \/ \E t \in Tasks : StartCall(t)
  \/ \E t \in Tasks : ProviderOk(t)
  \/ \E t \in Tasks : CachePut(t)
  \/ \E t \in Tasks : SaveDone(t)
  \/ \E t \in Tasks : ProviderError(t)
  \/ SurfaceChanges

DeliverySpec == Init /\ [][DeliveryNext]_vars

\* The attempts in time, with every suspended continuation eventually resumed,
\* every timer eventually firing and every provider call eventually settling
FairNext ==
  \/ Submit(MaxFairTasks)
  \/ TryStartNext
  \/ \E t \in Tasks : StartCall(t)
  \/ \E t \in Tasks : ProviderOk(t)
  \/ \E t \in Tasks : CachePut(t)
  \/ \E t \in Tasks : SaveDone(t)
  \/ \E t \in Tasks : ProviderError(t)
  \/ \E t \in Tasks : ProviderRateLimited(t)
  \/ \E t \in Tasks : RetryFire(t)
  \/ \E t \in Tasks : DeadlineTimer(t)
  \/ \E t \in Tasks : OrphanSettles(t)
  \/ Tick

Settle(t) == ProviderOk(t) \/ ProviderError(t) \/ ProviderRateLimited(t)

Fairness ==
  /\ WF_vars(TryStartNext)
  /\ WF_vars(Tick)
  /\ \A t \in Tasks :
       /\ WF_vars(StartCall(t))
       /\ WF_vars(CachePut(t))
       /\ WF_vars(SaveDone(t))
       /\ WF_vars(OrphanSettles(t))
       /\ WF_vars(RetryFire(t))
       /\ WF_vars(DeadlineTimer(t))
       /\ WF_vars(Settle(t))

FairSpec == Init /\ [][FairNext]_vars /\ Fairness

\* The rotation, with settings that stay as they are and providers that never
\* answer 'Rate limited.'
RotationNext ==
  \/ Submit(MaxRotationTasks)
  \/ TryStartNext
  \/ \E t \in Tasks : StartCall(t)
  \/ \E t \in Tasks : ProviderOk(t)
  \/ \E t \in Tasks : CachePut(t)
  \/ \E t \in Tasks : SaveDone(t)
  \/ \E t \in Tasks : ProviderError(t)

RotationSpec == Init /\ [][RotationNext]_vars

\* The queue with two messages for one cacheKey, every suspended continuation
\* eventually resumed (its read resolving or rejecting), every provider call
\* eventually settling and every save eventually completing
PairNext ==
  \/ Submit(MaxPairTasks)
  \/ TryStartNext
  \/ TryStartNextFails
  \/ \E t \in Tasks : StartCall(t)
  \/ \E t \in Tasks : ProviderOk(t)
  \/ \E t \in Tasks : CachePut(t)
  \/ \E t \in Tasks : SaveDone(t)
  \/ \E t \in Tasks : ProviderError(t)

PairFairness ==
  /\ WF_vars(TryStartNext \/ TryStartNextFails)
  /\ \A t \in Tasks :
       /\ WF_vars(StartCall(t))
       /\ WF_vars(ProviderOk(t) \/ ProviderError(t))
       /\ WF_vars(CachePut(t))
       /\ WF_vars(SaveDone(t))

PairFairSpec == Init /\ [][PairNext]_vars /\ PairFairness

\* The multi-slot scheduler of service-worker.ts, with a database that
\* answers and settings that stay as they are
MultiNext ==
  \/ SubmitMulti(MaxMultiTasks)
  \/ \E i \in 1 .. Len(calls) : ResumeAfterSettings(i)
  \/ \E i \in 1 .. Len(calls) : ResumeAfterPeek(i)
  \/ \E i \in 1 .. Len(calls) : ResumeAdvance(i)
  \/ \E i \in 1 .. Len(calls) : ResumeStored(i)
  \/ \E i \in 1 .. Len(calls) : StartRun(i)
  \/ \E i \in 1 .. Len(calls) : NoTaskCounted(i)
  \/ \E i \in 1 .. Len(calls) : NoTaskThrows(i)
  \/ \E t \in Tasks : StartCallMulti(t)
  \/ \E t \in Tasks : ProviderOkMulti(t)
  \/ \E t \in Tasks : CachePut(t)
  \/ \E t \in Tasks : SaveDoneMulti(t)
  \/ \E t \in Tasks : ProviderErrorMulti(t)
  \/ \E t \in Tasks : ProviderRateLimitedMulti(t)

MultiSpec == MultiInit /\ [][MultiNext]_vars

\* The multi-slot scheduler with one configured provider and more tasks
\* than the provider has slots, every call of the provider failing
CapInit == Loaded /\ settings = [apiKeys |-> {}, activeProviders |-> <<>>,
                                 apiProvider |-> "ollama"]

CapNext ==
  \/ SubmitMulti(MaxCapTasks)
  \/ \E i \in 1 .. Len(calls) : ResumeAfterSettings(i)
  \/ \E i \in 1 .. Len(calls) : ResumeAfterPeek(i)
  \/ \E i \in 1 .. Len(calls) : ResumeAdvance(i)
  \/ \E i \in 1 .. Len(calls) : StartRun(i)
  \/ \E i \in 1 .. Len(calls) : NoTaskCounted(i)
  \/ \E i \in 1 .. Len(calls) : NoTaskThrows(i)
  \/ \E t \in Tasks : StartCallMulti(t)
  \/ \E t \in Tasks : ProviderErrorMulti(t)

CapSpec == CapInit /\ [][CapNext]_vars

\* evaluateJob from the reply text on: parseJsonFromResponse, normalizeResult
ReplyNext == Clean \/ Parse \/ Normalize

ReplySpec == ReplyInit /\ [][ReplyNext]_vars

\* evaluateJob from the response of the provider on
HttpNext == Respond

HttpSpec == HttpInit /\ [][HttpNext]_vars

\* The resume store under the uploads and removals of the popup and the
\* side panel, whose calls may overlap.
ResumeNext ==
  \/ \E id \in ResumeIds : AddResume(id)
  \/ \E id \in ResumeIds : AddResumeChecks(id)
  \/ \E id \in ResumeIds : AddResumeStores(id)
  \/ \E id \in ResumeIds : DeleteResume(id)

ResumeSpec == Init /\ [][ResumeNext]_vars

\* The resumes of one task, for every provider, store and selection.
SelectNext == SelectResumes

SelectSpec == SelectInit /\ [][SelectNext]_vars

\* The result cache under saves and reads, from caches of every size
\* up to the cap.
CacheNext ==
  \/ \E jobId \in JobIds : \E r \in EvaluationResults : SaveJobEvaluation(jobId, r)
  \/ \E jobId \in JobIds : GetJobEvaluation(jobId)

CacheSpec == CacheInit /\ [][CacheNext]_vars

\* The result cache under saves whose cleanup may fail
TrimNext ==
  \/ \E jobId \in JobIds : \E r \in EvaluationResults : SaveJobEvaluation(jobId, r)
  \/ \E jobId \in JobIds : \E r \in EvaluationResults : SaveTrimFails(jobId, r)

TrimSpec == CacheInit /\ [][TrimNext]_vars

\* The side panel while runEvaluation is called and completions arrive
PanelNext ==
  \/ PanelRunEvaluation
  \/ \E outcome \in {"no job", "cached", "error", "pending", "result"} :
       \E key \in UiJobIds : \E r \in EvaluationResults :
         PanelRunEnds(outcome, key, r)
  \/ \E msg \in Messages : EvaluationComplete(msg)
  \/ \E key \in UiJobIds : RemoveDone(key)

PanelSpec == PanelInit /\ [][PanelNext]_vars

\* runEvaluation in the popup or the side panel, while the service worker
\* saves the results of earlier tasks.
UiNext ==
  \/ RunEvaluation
  \/ \E jobPage \in BOOLEAN : TabQueried(jobPage)
  \/ \E ok \in BOOLEAN : \E key \in UiJobIds : JobRead(ok, key)
  \/ CacheChecked
  \/ \E pending \in BOOLEAN : Answered(pending)
  \/ \E r \in EvaluationResults : AnsweredResult(r)
  \/ \E jobId \in UiJobIds : \E r \in EvaluationResults : SaveJobEvaluation(jobId, r)

UiSpec == UiInit /\ [][UiNext]_vars

\* The provider resolution of both schedulers, for every settings record.
ConfigNext == Resolve

ConfigSpec == ConfigInit /\ [][ConfigNext]_vars

(* ---------- the claims ---------- *)

TimeoutReasons == {"Timeout (2 min)", "gave up after timeout"}

\* C1 (single-flight): at most one task has an attempt running, being saved
\* or waiting for its retry at any time.
C1_SingleFlight ==
  Cardinality({t \in Tasks : Active(t)}) <= 1

\* C2 (eventual notification): every task accepted by the EVALUATE_JOB
\* handler eventually gets its EVALUATION_COMPLETE message.
C2_EventualNotification ==
  \A t \in Tasks : (run[t].phase = "queued") ~> (notified[t] >= 1)

\* C3 (rate-limit retry bound): the retry timer runs RATE_LIMIT_RETRY_MS, a
\* task is given up no earlier than TASK_FAIL_TIMEOUT_MS after its first
\* attempt started, and no retry is scheduled once that time has passed.
C3_RetryBound ==
  \A t \in Tasks :
    /\ run[t].phase = "backoff" => run[t].timer <= RATE_LIMIT_RETRY_MS
    /\ gaveUp[t] => sinceFirst[t] >= TASK_FAIL_TIMEOUT_MS
    /\ run[t].phase = "backoff" => sinceFirst[t] - run[t].timer < TASK_FAIL_TIMEOUT_MS

\* C4 (global deadline): the elapsed time an attempt compares with the
\* deadline is the time since the task's first attempt started, and no
\* attempt starts later than TASK_FAIL_TIMEOUT_MS after that.
C4_GlobalDeadline ==
  \A t \in Tasks :
    run[t].phase \in {"settings", "race"} =>
      /\ run[t].elapsed = sinceFirst[t]
      /\ run[t].elapsed = 0 => sinceFirst[t] <= TASK_FAIL_TIMEOUT_MS

\* C5 (give-up reason): a task abandoned by the rate-limit branch has exactly
\* one EVALUATION_COMPLETE message, whose error names a timeout.
C5_GiveUpReason ==
  \A t \in Tasks : gaveUp[t] => notified[t] = 1 /\ reason[t] \in TimeoutReasons

\* C6 (round-robin rotation): with N >= 2 unchanged providers, the k-th
\* started task (k <= N) runs on the k-th provider after the initial cursor.
C6_RoundRobin ==
  LET configured == getConfiguredProviders(settings)
      N == Len(configured)
  IN  N >= 2 =>
        \A k \in 1 .. Len(startOrder) :
          k <= N => assigned[startOrder[k]] = configured[((k - 1) % N) + 1]

\* C7 (cursor frame): the cursor has advanced exactly once per started task,
\* and every attempt of a task runs on the provider it was admitted with.
C7_CursorPerTask ==
  /\ advances = Len(startOrder)
  /\ \A t \in Tasks : Active(t) => run[t].provider = assigned[t]

\* C8 (single provider): an admission under exactly one configured provider
\* assigns that provider and leaves the cursor as it was.
C8_SingleProvider ==
  [][(starters' < starters /\ Len(getConfiguredProviders(settings)) = 1) =>
       /\ inFlight'.provider = getConfiguredProviders(settings)[1]
       /\ lastProviderIndex' = lastProviderIndex]_vars

\* C9 (FIFO start order): tasks are started in the order they were submitted.
C9_FifoStart ==
  \A i, j \in 1 .. Len(startOrder) : i < j => startOrder[i] < startOrder[j]

\* three tasks started, the first already notified when the last was started
C9_Witness ==
  /\ Len(startOrder) >= 3
  /\ notified[1] = 1
  /\ run[3].phase = "settings"

\* C10 (retry in place): a task waiting for its retry is not in the waiting
\* list and holds the in-flight slot, its k-th retry starts no earlier than
\* k delays after its first attempt, and no later task has been started
\* while a rate-limited task is not yet terminal.
C10_RetryInPlace ==
  \A t \in Tasks :
    /\ run[t].phase = "backoff" =>
         /\ inFlight.task = t
         /\ \A i \in 1 .. Len(pendingQueue) : pendingQueue[i] # t
    /\ (run[t].phase = "settings" /\ run[t].retryAttempt > 0) =>
         sinceFirst[t] >= run[t].retryAttempt * RATE_LIMIT_RETRY_MS
    /\ (Active(t) /\ rateLimited[t] > 0) =>
         \A u \in Tasks : u > t => run[u].phase \in {"idle", "queued"}

\* C11 (terminal failures): an attempt that ends without a result and not in
\* the 'Rate limited.' branch (a read fails, the key is missing, the
\* provider call rejects, the 2-minute timer wins, the save fails) sends the
\* task's only EVALUATION_COMPLETE, with the error text, schedules no retry,
\* frees the slot and calls tryStartNext.
C11_TerminalFailure ==
  [][\A t \in Tasks :
       LET fails ==
             \/ run[t].phase = "settings" /\ run'[t].phase \notin {"settings", "race"}
             \/ /\ run[t].phase = "race"
                /\ run'[t].phase \notin {"race", "save", "backoff"}
                /\ ~gaveUp'[t]
             \/ run[t].phase = "save" /\ run'[t].phase \notin {"save", "saved"}
       IN  fails =>
             /\ notified[t] = 0 /\ notified'[t] = 1
             /\ reason'[t] \notin {"none", "Rate limited."}
             /\ run'[t].phase = "done"
             /\ inFlight' = null
             /\ starters' = IF Len(pendingQueue) > 0 THEN starters + 1 ELSE starters
             /\ pendingQueue' = pendingQueue]_vars

\* the save of the first task failed, the task is notified, and the task
\* admitted after it is calling its provider
C11_Witness ==
  /\ reason[1] = "save failed" /\ notified[1] = 1
  /\ run[2].phase = "race"

\* C12 (cache before notification): in the step that sends a task's
\* EVALUATION_COMPLETE with a result, the record of the task's cacheKey
\* already holds that task's result, and the step does not change the store.
C12_CacheBeforeNotify ==
  [][\A t \in Tasks :
       (notified'[t] = notified[t] + 1 /\ reason'[t] = "none") =>
         /\ cache[cacheKey(t)] = t
         /\ cache' = cache]_vars

\* C13 (terminal states absorb): once a task has its EVALUATION_COMPLETE, no
\* step starts an attempt or a retry timer for it, sends it a second
\* EVALUATION_COMPLETE or an EVALUATION_RATE_LIMITED, or writes its result to
\* the store, also when its provider call settles after the 2-minute timer
\* failed it.
C13_TerminalAbsorbing ==
  [][\A t \in Tasks :
       run[t].phase = "done" =>
         /\ run'[t] = run[t]
         /\ notified[t] = 1 /\ notified'[t] = 1
         /\ reason'[t] = reason[t]
         /\ rateLimited'[t] = rateLimited[t]
         /\ cache'[cacheKey(t)] = t => cache[cacheKey(t)] = t]_vars

\* the provider call of a task failed by the 2-minute timer has settled
\* afterwards, and the task still has its one notification
C13_Witness ==
  \E t \in Tasks :
    /\ orphan[t] = -1
    /\ run[t].phase = "done"
    /\ notified[t] = 1 /\ reason[t] = "Timeout (2 min)"

\* C14 (no de-duplication): two tasks with the same cacheKey, both accepted
\* before either has its EVALUATION_COMPLETE, are both started and both get
\* their own EVALUATION_COMPLETE.
C14_NoDedup ==
  \A t, u \in Tasks :
    (t < u /\ cacheKey(t) = cacheKey(u)) =>
      ((run[t].phase # "idle" /\ run[u].phase # "idle"
          /\ notified[t] = 0 /\ notified[u] = 0)
        ~> (notified[t] = 1 /\ notified[u] = 1))

\* C15 (failure isolation): a task that waits in the list when an earlier
\* task has terminated, by success or by failure, is eventually taken from
\* the list and started, whatever read failed on the way.
C15_FailureIsolation ==
  \A t \in Tasks :
    (run[t].phase = "queued" /\ \E u \in Tasks : u < t /\ run[u].phase = "done")
      ~> (run[t].phase # "queued")

\* C16 (one provider call): at most one fetch issued by evaluateJob is
\* outstanding at any time, the calls that lost their race to the 2-minute
\* timer included.
C16_OneProviderCall ==
  Cardinality({t \in Tasks : run[t].phase = "race" \/ orphan[t] > 0}) <= 1

\* C17 (timeout nesting): the HTTP timeout evaluateJob arms for the provider
\* of a running call is no longer than the 2-minute timer it is raced
\* against, and the one of a hosted provider is shorter than Ollama's.
C17_TimeoutNesting ==
  \A t \in Tasks :
    run[t].phase = "race" =>
      /\ httpTimeout(run[t].provider) <= TASK_FAIL_TIMEOUT_MS
      /\ run[t].provider # "ollama" =>
           httpTimeout(run[t].provider) < httpTimeout("ollama")

C19_MissingCredential ==
  [][\A t \in Tasks :
       (run[t].phase = "settings" /\ ~hasKey(settings, run[t].provider)
          /\ run'[t] # run[t]) =>
         /\ run[t].provider # "ollama"
         /\ run'[t].phase = "done"
         /\ notified[t] = 0 /\ notified'[t] = 1
         /\ reason'[t] \in {"API key required", "read failed"}
         /\ inFlight' = null]_vars

\* a task admitted with a hosted provider whose key was removed before its
\* attempt has been failed for the missing key
C19_Witness ==
  \E t \in Tasks :
    /\ assigned[t] \notin {"null", "ollama"}
    /\ reason[t] = "API key required"
    /\ notified[t] = 1 /\ run[t].phase = "done"

\* C20 (no provider configured): while the configured list is empty, every
\* tryStartNext returns after its settings read: all submitted tasks stay in
\* the queue in order, nothing is in flight, and the stored cursor is as it
\* was.
C20_NoProviders ==
  Len(getConfiguredProvidersMulti(settings)) = 0 =>
    /\ pendingQueue = [k \in 1 .. submitted |-> k]
    /\ \A t \in Tasks : run[t].phase \in {"idle", "queued"}
    /\ inFlightCount = 0
    /\ \A p \in Providers : providerInFlightCount[p] = 0
    /\ rotation = -1
    /\ \A i \in 1 .. Len(calls) : calls[i].pc = "settings"

\* nothing is configured, two tasks were submitted, and every tryStartNext
\* they started has returned
C20_Witness ==
  /\ Len(getConfiguredProvidersMulti(settings)) = 0
  /\ submitted >= 2
  /\ calls = <<>>
  /\ Len(pendingQueue) = submitted

\* C21: normalizeResult yields a score in [0,100]: a numeric score below 0
\* becomes 0, one above 100 becomes 100, one inside the range is unchanged,
\* and a missing or non-numeric score becomes exactly 50.
C21_ScoreClamped ==
  stage = "normalized" =>
    LET score == get(raw, <<"score">>)
    IN /\ result.score.t = "num"
       /\ result.score.v >= 0 /\ result.score.v <= 100
       /\ score.t # "num" => result.score.v = 50
       /\ score.t = "num" =>
            /\ score.v < 0 => result.score.v = 0
            /\ score.v > 100 => result.score.v = 100
            /\ score.v >= 0 /\ score.v <= 100 => result.score.v = score.v

\* a reply whose score of 150 has been parsed as it was written and
\* normalized to 100
C21_Witness ==
  /\ stage = "normalized"
  /\ get(raw, <<"score">>) = num(150)
  /\ result.score = num(100)

\* C22: normalizeResult passes the verdicts 'worth', 'maybe' and 'not_worth'
\* through unchanged and maps every other verdict, a missing one included,
\* to 'maybe': every result has one of the three verdicts.
Verdicts == {str(<<"worth">>), str(<<"maybe">>), str(<<"not_worth">>)}

C22_VerdictCoerced ==
  stage = "normalized" =>
    LET verdict == get(raw, <<"verdict">>)
        written == SelectSeq(reply.members, LAMBDA m : m[1] = <<"verdict">>)
    IN /\ result.verdict \in Verdicts
       /\ result.verdict =
            IF verdict.t = "str" /\ verdict \in Verdicts
              THEN verdict ELSE str(<<"maybe">>)
       /\ written[1][2].t = "undefined" => result.verdict = str(<<"maybe">>)

\* a reply whose verdict 'great' has been parsed as it was written and
\* normalized to 'maybe'
C22_Witness ==
  /\ stage = "normalized"
  /\ get(raw, <<"verdict">>) = str(<<"great">>)
  /\ result.verdict = str(<<"maybe">>)

\* C23: a well-formed result object written inside a code fence, with a
\* comma before its closing brackets, or with the line breaks of its strings
\* left as they are, is parsed to the same normalized result as the object
\* written as minimal JSON.
C23_ParserRobust ==
  stage = "normalized" /\ reply \in StringReplies
    /\ reply.style \subseteq {"fence", "bare", "comma", "newline"} =>
    result = normalizeResult(parseJsonFromResponse(render(reply.members, {})))

\* the members a reply was written with, and whether JSON.parse gave an
\* object with a verdict for its text
Written == {reply.members[i] : i \in {j \in DOMAIN reply.members :
                                       reply.members[j][2].t # "undefined"}}
Accepted == \E k \in 1 .. 4 : accepted(k, text)

\* every member of the reply whose name is not in the result schema is in
\* the result's extraInfo with its value
UnknownKept ==
  \A m \in Written :
    m[1] \notin KNOWN_RESULT_KEYS =>
      /\ result.extraInfo.t = "obj"
      /\ m[1] \in DOMAIN result.extraInfo.v
      /\ result.extraInfo.v[m[1]] = m[2]

C25_StatusClassified ==
  thrown \notin {"idle", "pending"} =>
    /\ http.provider # "ollama" /\ http.res.status \in {401, 403} =>
         thrown = "Invalid API key."
    /\ http.provider # "ollama" /\ http.res.status = 429 =>
         thrown = "Rate limited."
    /\ http.provider = "ollama" /\ http.res.status \in {401, 403} =>
         thrown = "Ollama rejected the request (CORS)."

\* C26: when the assigned provider is ollama no resumes are sent, whatever
\* the caller selected; for any other provider exactly the stored resumes
\* whose ids are in the caller's selection are sent, each once, and none
\* when the selection is empty or absent.
C26_ResumesSent ==
  sent # <<>> /\ sent.pc = "selected" =>
    LET got == {sent.resumes[i] : i \in 1 .. Len(sent.resumes)}
        ids == sent.resumeIds.ids
        selection == IF sent.resumeIds.defined
                       THEN {ids[i] : i \in 1 .. Len(ids)} ELSE {}
    IN /\ Len(sent.resumes) = Cardinality(got)
       /\ got = IF sent.provider = "ollama" THEN {}
                ELSE {r \in store : r.id \in selection}

\* ollama was assigned a task whose caller selected two stored resumes
C26_Witness ==
  /\ sent # <<>>
  /\ sent.pc = "selected"
  /\ sent.provider = "ollama"
  /\ sent.resumeIds.defined
  /\ Len(sent.resumeIds.ids) = 2
  /\ \A i \in 1 .. 2 : \E r \in store : r.id = sent.resumeIds.ids[i]
  /\ sent.resumeIds.ids[1] # sent.resumeIds.ids[2]

\* C27: at most 5 resumes are ever stored: addResume rejects and stores
\* nothing when 5 resumes already exist, for any sequence of addResume and
\* deleteResume calls, addResume calls that overlap in time included.
C27_AtMostFiveResumes == Cardinality(store) <= MAX_RESUMES

\* the cached result of every job
cachedResults == [j \in DOMAIN jobEvaluations |-> jobEvaluations[j].result]

\* C28 (read back): after saveJobEvaluation(k, r) a read of k returns the
\* record of r, whatever was stored under k before.
C28_ReadReturnsSaved ==
  saved # <<>> /\ readBack # <<>> /\ readBack.jobId = saved.jobId =>
    /\ readBack.value # nullV
    /\ readBack.value.result = saved.result
    /\ readBack.value.score = saved.result.score

\* C28 (idempotent): saving the same (k, r) a second time leaves every
\* cached result as the first save left it.
C28_SecondSaveChangesNothing ==
  saved # <<>> /\ saved' # <<>> /\ saved'.n = saved.n + 1
    /\ saved'.jobId = saved.jobId /\ saved'.result = saved.result =>
    cachedResults' = cachedResults

\* C28 (other keys): a save into a cache below its size cap leaves the
\* records of all other keys as they were.
C28_OtherKeysKept ==
  saved' # saved /\ saved' # <<>>
    /\ Cardinality(DOMAIN jobEvaluations) < MAX_JOB_EVALS =>
    /\ DOMAIN jobEvaluations' = DOMAIN jobEvaluations \cup {saved'.jobId}
    /\ \A j \in DOMAIN jobEvaluations \ {saved'.jobId} :
         jobEvaluations'[j] = jobEvaluations[j]

\* C28: saveJobEvaluation is an idempotent overwrite: a read after
\* save(k, r) returns r whatever was stored under k before, saving the
\* same (k, r) twice leaves the same cached results as saving it once, and
\* the records of other keys are unchanged while the cache is below its cap.
C28_IdempotentOverwrite ==
  /\ []C28_ReadReturnsSaved
  /\ [][C28_SecondSaveChangesNothing /\ C28_OtherKeysKept]_vars

\* a result was saved over a different result of the same job, saved again,
\* and read back, in a cache just below its cap
C28_Witness ==
  /\ saved # <<>>
  /\ saved.n = 2
  /\ saved.jobId = 1
  /\ saved.result.score = 20
  /\ readBack # <<>>
  /\ readBack.jobId = 1
  /\ Cardinality(DOMAIN jobEvaluations) = MAX_JOB_EVALS - 1

\* C29: when the result cache holds a record for the job's cache key at the
\* time runEvaluation checks it, runEvaluation shows the cached result and
\* sends no EVALUATE_JOB message for that key.
C29_CachedNotSubmitted ==
  ui # <<>> =>
    \A n \in 1 .. Len(ui.runs) :
      ui.runs[n].cached # nullV =>
        /\ ui.runs[n].cached.jobId = ui.runs[n].cacheKey
        /\ ~ui.runs[n].submitted
        /\ \A m \in 1 .. Len(ui.messages) : ui.messages[m].run # n
        /\ ui.runs[n].shown =
             IF ui.runs[n].cached.result = undefinedV
               THEN [score |-> ui.runs[n].cached.score, verdict |-> "maybe"]
               ELSE ui.runs[n].cached.result

\* a job was evaluated and its result saved, and the next run for the same
\* job found the record and showed its result
C29_Witness ==
  /\ ui # <<>>
  /\ Len(ui.runs) = 2
  /\ ui.runs[1].submitted
  /\ ui.runs[1].shown \in EvaluationResults
  /\ ui.runs[2].cacheKey = ui.runs[1].cacheKey
  /\ ui.runs[2].cached # nullV
  /\ ui.runs[2].shown = ui.runs[1].shown
  /\ Len(ui.messages) = 1

\* C30 (peek): peekNextProvider never changes the stored cursor.
C30_PeekKeepsCursor ==
  (\E i \in 1 .. Len(calls) : calls[i].pc = "peek" /\ ResumeAfterPeek(i)) =>
    rotation' = rotation

\* C30 (admission): for every task about to be started, the provider whose
\* capacity the peek checked is the provider getNextProvider assigned, and
\* with more than one provider its call moved the stored cursor by exactly
\* one position, from where it stood to the next.
C30_AdmissionsAdvance ==
  \A i \in 1 .. Len(calls) :
    LET c == calls[i]
    IN c.pc = "start" /\ c.task # undefined =>
         /\ c.provider = c.peeked
         /\ Len(c.configured) > 1 =>
              c.nextIndex = nextStoredIndex(c.before, c.configured)

\* C30: peekNextProvider never changes the stored cursor, and for every
\* admitted task the provider checked by the peek is the provider assigned
\* by getNextProvider, with the stored cursor advanced by exactly one
\* position per admission, also when two tryStartNext calls overlap.
C30_RotationCommitted ==
  /\ [][C30_PeekKeepsCursor]_vars
  /\ []C30_AdmissionsAdvance

\* the providers that have a credential: ollama needs none
withCredential == {"ollama"} \cup settings.apiKeys

\* list holds exactly the members of base that have a credential, in the
\* order of base
restrictedTo(list, base) ==
  /\ {list[i] : i \in 1 .. Len(list)}
       = {base[i] : i \in 1 .. Len(base)} \cap withCredential
  /\ \E at \in [1 .. Len(list) -> 1 .. Len(base)] :
       /\ \A i \in 1 .. Len(list) : base[at[i]] = list[i]
       /\ \A i \in 1 .. Len(list) : \A j \in 1 .. Len(list) : i < j => at[i] < at[j]

\* C31 as stated: the configured list of either scheduler is the active
\* subset restricted to the providers with a credential when the user has
\* chosen one, otherwise every provider with a credential in the fixed
\* order, ollama always among them.
C31_ConfiguredAsStated ==
  resolved # <<>> =>
    \A list \in {resolved.single, resolved.multi} :
      IF Len(settings.activeProviders) > 0
        THEN restrictedTo(list, settings.activeProviders)
        ELSE restrictedTo(list, allProviders) /\ list[1] = "ollama"

\* C31: the configured list is the active subset restricted to the
\* providers with a credential when the user has chosen a subset (in the
\* single-slot scheduler: and one of its members has a credential),
\* otherwise every provider with a credential in the fixed order, ollama
\* first; the single-slot scheduler returns that full list too when no
\* member of the chosen subset has a credential.
C31_Configured ==
  resolved # <<>> =>
    LET chosen == Len(settings.activeProviders) > 0
        usable == \E i \in 1 .. Len(settings.activeProviders) :
                    settings.activeProviders[i] \in withCredential
    IN /\ IF chosen
            THEN restrictedTo(resolved.multi, settings.activeProviders)
            ELSE restrictedTo(resolved.multi, allProviders)
                   /\ resolved.multi[1] = "ollama"
       /\ IF chosen /\ usable
            THEN restrictedTo(resolved.single, settings.activeProviders)
            ELSE restrictedTo(resolved.single, allProviders)
                   /\ resolved.single[1] = "ollama"

\* a subset of two providers was chosen of which one has a key
C31_Witness ==
  /\ resolved # <<>>
  /\ settings.activeProviders = <<"groq", "openai">>
  /\ settings.apiKeys = {"openai", "anthropic"}
  /\ resolved.single = <<"openai">>
  /\ resolved.multi = <<"openai">>

\* the number of EVALUATION_RATE_LIMITED messages sent for task t
rlCount(t) == IF rlSent[t] = <<>> THEN 0 ELSE rlSent[t].n

\* C32 (each attempt): a rate-limited attempt, whether its retry is scheduled
\* or the task is given up, sends one EVALUATION_RATE_LIMITED message with
\* the task's cacheKey and the attempt's provider, and nothing else sends one.
C32_OnePerAttempt ==
  \A t \in Tasks :
    LET limited == /\ run[t].phase = "race"
                   /\ \/ run'[t].phase = "backoff"
                      \/ gaveUp'[t] /\ ~gaveUp[t]
    IN /\ limited =>
            /\ rlSent'[t] # <<>>
            /\ rlSent'[t].n = Min(rlCount(t) + 1, MaxRetry)
            /\ rlSent'[t].message.cacheKey = cacheKey(t)
            /\ rlSent'[t].message.provider = run[t].provider
       /\ rlSent'[t] # rlSent[t] => limited

\* C32 (retryCount): the retryCount of the k-th message of a task is k.
C32_CountsUp ==
  \A t \in Tasks : rlSent[t] # <<>> => rlSent[t].message.retryCount = rlSent[t].n

\* C32: every rate-limited attempt emits exactly one EVALUATION_RATE_LIMITED
\* notification, carrying the task's cacheKey and provider, before its retry
\* is scheduled or the task is given up, and the retryCount of the successive
\* notifications of one task is 1, 2, 3, ...
C32_RateLimitedNotified ==
  /\ [][C32_OnePerAttempt]_vars
  /\ []C32_CountsUp

\* a task was rate limited twice and waits for its second retry
C32_Witness ==
  \E t \in Tasks :
    /\ rlSent[t] # <<>>
    /\ rlSent[t].n = 2
    /\ rlSent[t].message.retryCount = 2
    /\ run[t].phase = "backoff"

\* C33 (step): when done runs for task t, whatever deliveries were rejected,
\* the slot is freed, tryStartNext is called, one EVALUATION_COMPLETE is sent
\* and a task whose result was saved is reported without error and keeps its
\* cache record.
C33_DoneRegardless ==
  \A t \in Tasks :
    notified'[t] # notified[t] =>
      /\ inFlight' = null
      /\ notified'[t] = notified[t] + 1
      /\ starters' = IF Len(pendingQueue) > 0 THEN starters + 1 ELSE starters
      /\ run[t].phase = "saved" =>
           /\ reason'[t] = "none"
           /\ cache'[cacheKey(t)] = cache[cacheKey(t)]
           /\ cache[cacheKey(t)] # 0

\* C33: delivery failures are swallowed: if broadcasting a lifecycle
\* notification is rejected because nobody listens, or the message to the
\* originating tab is rejected because the tab is closed, the task's outcome
\* is unchanged (a saved task is reported completed and stays cached), the
\* in-flight slot is freed and the admission loop runs.
C33_DeliveryFailuresSwallowed ==
  /\ [][C33_DoneRegardless]_vars
  /\ [](\A t \in Tasks :
          (\E type \in {"SET_JOB_SCORES", "EVALUATION_COMPLETE"} :
             <<t, type>> \in undelivered)
          => /\ notified[t] > 0
             /\ <<t, "SET_JOB_SCORES">> \in undelivered =>
                  reason[t] = "none" /\ cache[cacheKey(t)] # 0)

\* a task was saved and reported although neither its SET_JOB_SCORES nor its
\* EVALUATION_COMPLETE was delivered, and the next task was admitted
C33_Witness ==
  /\ <<1, "SET_JOB_SCORES">> \in undelivered
  /\ <<1, "EVALUATION_COMPLETE">> \in undelivered
  /\ reason[1] = "none"
  /\ cache[cacheKey(1)] # 0
  /\ inFlight # null
  /\ inFlight.task = 2

\* C34: the UI never submits EVALUATE_JOB for a cache key that is pending in
\* its own processing list, for any sequence of runEvaluation invocations.
C34_NoResubmitOfPending ==
  [][(ui # <<>> /\ ui' # <<>> /\ Len(ui'.messages) > Len(ui.messages))
       => ui.cacheKey \notin ui.processing]_vars

\* the tasks running on provider p: runEvalTask was called with p and its
\* finally block has not run
runningOn(p) ==
  {t \in Tasks : run[t].provider = p
                 /\ run[t].phase \in {"settings", "call", "save", "saved"}}

\* C35: at no time are more than MAX_PER_PROVIDER tasks in flight for the
\* same provider, and providerInFlightCount[p] always equals the number of
\* tasks running on provider p.
C35_PerProviderCap ==
  \A p \in Providers :
    /\ Cardinality(runningOn(p)) <= MAX_PER_PROVIDER
    /\ providerInFlightCount[p] <= MAX_PER_PROVIDER
    /\ providerInFlightCount[p] = Cardinality(runningOn(p))

\* C35 (cap alone): no more than MAX_PER_PROVIDER tasks are in flight for a
\* provider and no more are counted.
C35_CapOnly ==
  \A p \in Providers :
    /\ Cardinality(runningOn(p)) <= MAX_PER_PROVIDER
    /\ providerInFlightCount[p] <= MAX_PER_PROVIDER

\* the tasks with an attempt running or a retry pending
live(t) == run[t].phase \in {"settings", "race", "save", "saved", "backoff"}

\* C36 (clearing): the slot is cleared only by the terminal outcome of the
\* task that occupies it.
C36_ClearedByOccupant ==
  (inFlight # null /\ inFlight' = null) =>
     /\ inFlight.task \in Tasks
     /\ live(inFlight.task)
     /\ run'[inFlight.task].phase = "done"

\* C36: slot ownership: the in-flight slot is cleared only by the terminal
\* outcome of the task that occupies it; whenever a task has an attempt
\* running or a retry pending, inFlight is non-null and refers to that task,
\* and inFlight is null only when no task is running.
C36_SlotOwnership ==
  /\ [][C36_ClearedByOccupant]_vars
  /\ [](\A t \in Tasks : live(t) => inFlight # null /\ inFlight.task = t)

\* C37: tryStartNext never pops from an empty waiting list: each call of
\* runEvalTask receives a defined task, and the in-flight slot is never
\* occupied by an entry that has no task.
C37_NeverPopsEmpty ==
  /\ emptyPops = 0
  /\ inFlight # null => inFlight.task # undefined

\* the cleaned text is accepted by none of the four repairs
unparseable == ~ \E k \in 1 .. 4 : accepted(k, text)

\* the reply was written without a score and without a verdict
nothingToExtract ==
  \A i \in 1 .. Len(reply.members) :
    reply.members[i][1] \in {<<"score">>, <<"verdict">>}
      => reply.members[i][2].t = "undefined"

\* C38: the reply parser yields a result for every reply text: the regex
\* fallback always returns an object (score 50 and verdict 'maybe' when
\* nothing can be extracted), parseJsonFromResponse never raises its
\* 'invalid JSON' error, and an unparseable reply gives a result with the
\* default values, never a failure.
C38_AlwaysAResult ==
  /\ stage \in {"parsed", "normalized"} => raw # invalidJson /\ raw.t = "obj"
  /\ stage = "normalized" =>
       /\ result # invalidJson
       /\ result.score.t = "num"
       /\ result.verdict \in Verdicts
  /\ stage \in {"parsed", "normalized"} /\ unparseable /\ nothingToExtract =>
       /\ get(raw, <<"score">>) = num(50)
       /\ get(raw, <<"verdict">>) = str(<<"maybe">>)
  /\ stage = "normalized" /\ unparseable /\ nothingToExtract =>
       /\ result.score = num(50)
       /\ result.verdict = str(<<"maybe">>)

\* a reply without score and verdict, which no repair makes acceptable, has
\* been given the default values by the fallback and normalized
C38_Witness ==
  /\ stage = "normalized"
  /\ unparseable
  /\ nothingToExtract
  /\ get(raw, <<"score">>) = num(50)
  /\ result.score = num(50)
  /\ result.verdict = str(<<"maybe">>)

\* the records a save removed
evicted == (DOMAIN jobEvaluations \cup {saved'.jobId}) \ DOMAIN jobEvaluations'

\* what the claim says of the step of a save
cacheBound ==
  /\ Cardinality(DOMAIN jobEvaluations') <= MAX_JOB_EVALS
  /\ saved'.jobId \in DOMAIN jobEvaluations'
  /\ jobEvaluations'[saved'.jobId].result = saved'.result
  /\ saved'.jobId \notin evicted
  /\ \A e \in evicted : \A k \in DOMAIN jobEvaluations' :
       jobEvaluations[e].evaluatedAt <= jobEvaluations'[k].evaluatedAt

entryOf(jobs, k) == IF k \in DOMAIN jobs THEN jobs[k] ELSE <<>>

\* C40: in the side panel, an EVALUATION_COMPLETE notification whose
\* cacheKey differs from the cache key of the job displayed never changes
\* the displayed result, error or loading state; it only updates the
\* processing-list entry of its own cache key.
C40_OtherJobUntouched ==
  [][(/\ panel # <<>>
      /\ panel'.received = panel.received + 1
      /\ panel'.last.cacheKey # panel.state.cacheKey)
     => /\ panel'.state = panel.state
        /\ \A k \in UiJobIds \ {panel'.last.cacheKey} :
             entryOf(panel'.processingJobs, k) = entryOf(panel.processingJobs, k)
        /\ DOMAIN panel'.processingJobs = DOMAIN panel.processingJobs]_vars

\* the panel shows one job as loading while the completion of another job,
\* pending in the list, has arrived with its result
C40_Witness ==
  /\ panel # <<>>
  /\ panel.received > 0
  /\ panel.state.cacheKey # 0
  /\ panel.state.loading
  /\ panel.state.result = nullV
  /\ panel.last.cacheKey # panel.state.cacheKey
  /\ panel.last.result # nullV
  /\ panel.last.cacheKey \in DOMAIN panel.processingJobs
  /\ panel.processingJobs[panel.last.cacheKey].status = "done"

====
